---- MODULE Spec2Model ----
(***************************************************************************)
(* Model of the runable agent's two stateful subsystems.                   *)
(*                                                                         *)
(*  - conversation memory: the SQLite ledger (db/client.ts), the           *)
(*    compactor (agent/compactor.ts) and the Session orchestrator          *)
(*    (agent/session.ts);                                                  *)
(*  - sandbox lifecycle: the Docker manager (docker/manager.ts).           *)
(*                                                                         *)
(* Nullable values are sequences: <<>> is null/undefined, <<v>> is v.      *)
(* Text is a sequence of one-character strings.                            *)
(***************************************************************************)
EXTENDS Integers, Sequences, FiniteSets, TLC

\* ------------------------------------------------------------------ bounds

\* Largest message rowid the model lets AUTOINCREMENT hand out.
MaxMessages == 3
\* Cap on the in-memory token total in the guards of the adding operations.
MaxTotalTokens == 8
\* config.keepRecentMessages is drawn from 0..MaxKeep.
MaxKeep == 2
\* Model value of config.compactAtTokens.
CompactAtTokens == 4
\* Model value of config.maxSummaryLength.
MaxSummaryLength == 2
\* The recursion depth of exec() is counted up to MaxDepth and stays there.
MaxDepth == 2

\* the largest MAX_TOKENS the environment sets
MaxEnvTokens == 8
MaxTurns == 2
\* The command writes at most MaxFrames frames, delivered in at most
\* MaxChunks chunks.
MaxFrames == 2
MaxChunks == 3

\* ----------------------------------------------------------------- helpers

None == << >>
Some(v) == << v >>
Get(n) == n[1]

Max(a, b) == IF a >= b THEN a ELSE b

\* Math.ceil(n / 4) for n >= 0
CeilDiv4(n) == (n + 3) \div 4

\* ----------------------------------------------------------- input domains

SessionIds == {"s1"}
Roles == {"user", "assistant", "system"}
Contents == {"hello"}
\* Math.floor(Date.now() / 1000): the wall clock is read at each call and may
\* repeat a value or step back between two calls.
ClockValues == {1, 2}
\* tokenCount argument of the add*Message operations (undefined or a number):
\* as the callers pass it, none for a user message, the usage total for an
\* assistant message; a system message is given a zero count.
UserTokenChoices == {None}
AssistantTokenChoices == {Some(2)}
SystemTokenChoices == {Some(0)}
\* (inputTokens, outputTokens) of updateTokenCount
UsageChoices == {<<1, 1>>}
KeepChoices == 0..MaxKeep

Whitespace == {" ", "\n"}
\* result.text returned by the summarizer
RawTexts == { << >>, <<" ", "a", "\n">>, <<"a", "b", "c", "d">> }

\* index.ts, the preamble of every turn
SYSTEM_PROMPT == "You are a helpful coding assistant"

\* "\n\n[Summary truncated due to length]"
TruncationMarker ==
  <<"\n", "\n", "[", "S", "u", "m", "m", "a", "r", "y", " ", "t", "r", "u",
    "n", "c", "a", "t", "e", "d", " ", "d", "u", "e", " ", "t", "o", " ",
    "l", "e", "n", "g", "t", "h", "]">>

VARIABLES
  \* durable store
  sessions,       \* sessions table: id -> null | [summary_text, last_compacted_at]
  messages,       \* messages table: set of rows
  seq,            \* sqlite_sequence for messages (AUTOINCREMENT high-water mark)
  \* configuration
  keepRecentMessages,
  \* the Session object
  sessionId,      \* null before loadOrCreate
  summary,        \* Session.summary (string | null)
  totalTokens,    \* Session.totalTokens
  compaction,     \* null | the checkAndCompact call awaiting the summarizer
  last,           \* the last completed Session operation and its outcome
  \* Docker engine
  container,          \* null | the container named CONTAINER_NAME: [id, running]
  \* docker/manager.ts
  containerInstance,  \* null | the cached handle: [kind, id]
  calls,              \* per caller, the position of its exec() call
  teardown,           \* the position of the stopContainer() call
  \* host
  workspace,          \* files of process.cwd(), bind-mounted into the container
  \* config/env.ts
  env,                \* process.env: [MAX_TOKENS, COMPACT_AT_PERCENT]
  config,             \* null before config/env.ts is loaded | the exported config
  \* index.ts
  turn,               \* the position of cliLoop / runAgent in the current turn
  \* the hijacked stream of one exec instance
  stream              \* the frames written, the chunks to deliver, the accumulators

memVars == <<sessions, messages, seq, keepRecentMessages, sessionId, summary,
             totalTokens, compaction, last>>

sbxVars == <<container, containerInstance, calls, teardown, workspace>>

cfgVars == <<env, config>>

agentVars == <<turn>>

ioVars == <<stream>>

vars == <<sessions, messages, seq, keepRecentMessages, sessionId, summary,
          totalTokens, compaction, last, container, containerInstance, calls,
          teardown, workspace, env, config, turn, stream>>

\* ------------------------------------------------------------- text helpers

RECURSIVE TrimStart(_)
TrimStart(t) ==
  IF t # << >> /\ Head(t) \in Whitespace THEN TrimStart(Tail(t)) ELSE t

RECURSIVE TrimEnd(_)
TrimEnd(t) ==
  IF t # << >> /\ t[Len(t)] \in Whitespace
  THEN TrimEnd(SubSeq(t, 1, Len(t) - 1))
  ELSE t

\* String.prototype.trim
Trim(t) == TrimEnd(TrimStart(t))

\* String.prototype.substring(0, n)
Substring0(t, n) == SubSeq(t, 1, IF n < Len(t) THEN Max(n, 0) ELSE Len(t))

\* ------------------------------------------------------------------ ledger

\* ORDER BY created_at ASC over the (session_id, created_at) index: rows with
\* equal created_at come out in rowid order.
Before(a, b) ==
  \/ a.created_at < b.created_at
  \/ a.created_at = b.created_at /\ a.id <= b.id

\* The rows of S in that order: the i-th is the one with i rows of S at or
\* before it.
SortByCreatedAt(S) ==
  [i \in 1..Cardinality(S) |->
     CHOOSE m \in S : Cardinality({ x \in S : Before(x, m) }) = i]

RowsOf(table, sid) == { m \in table : m.session_id = sid }

getAllMessagesIn(table, sid) == SortByCreatedAt(RowsOf(table, sid))

getAllMessages(sid) == getAllMessagesIn(messages, sid)

RECURSIVE SumTokens(_)
SumTokens(S) ==
  IF S = {} THEN 0
  ELSE LET m == CHOOSE x \in S : TRUE
       IN  (IF m.token_count = None THEN 0 ELSE Get(m.token_count))
           + SumTokens(S \ {m})

\* getTotalTokenCountIn counting the rows instead of summing their counts
getTotalTokenCountRows(table, sid) ==
  Cardinality({ m \in RowsOf(table, sid) : m.token_count # None })

\* SELECT COALESCE(SUM(token_count), 0) ... WHERE session_id = ? AND
\* token_count IS NOT NULL
getTotalTokenCountIn(table, sid) ==
  SumTokens({ m \in RowsOf(table, sid) : m.token_count # None })

getTotalTokenCount(sid) == getTotalTokenCountIn(messages, sid)

\* deleteMessagesBeforeIdIn without the session_id condition
deleteMessagesBeforeIdAnySession(table, sid, beforeMessageId) ==
  { m \in table : ~(m.id < beforeMessageId) }

\* DELETE FROM messages WHERE session_id = ? AND id < ?
deleteMessagesBeforeIdIn(table, sid, beforeMessageId) ==
  { m \in table : ~(m.session_id = sid /\ m.id < beforeMessageId) }

\* setSummaryIn without the id condition
setSummaryInEverySession(table, sid, summaryText, now) ==
  [id \in DOMAIN table |->
     IF table[id] = None THEN None
     ELSE Some([summary_text |-> Some(summaryText),
                last_compacted_at |-> Some(now)])]

\* UPDATE sessions SET summary_text = ?, last_compacted_at = ? WHERE id = ?
setSummaryIn(table, sid, summaryText, now) ==
  IF table[sid] = None THEN table
  ELSE [table EXCEPT ![sid] =
          Some([summary_text |-> Some(summaryText),
                last_compacted_at |-> Some(now)])]

NewRow(sid, role, content, now, tokenCount) ==
  [id |-> seq + 1, session_id |-> sid, role |-> role, content |-> content,
   created_at |-> now, token_count |-> tokenCount]

\* ------------------------------------------------------------ token budget

\* shouldCompact comparing against the threshold less one
shouldCompactEarly(currentTokenCount, compactAtTokens) ==
  currentTokenCount >= compactAtTokens - 1

shouldCompact(currentTokenCount, compactAtTokens) ==
  currentTokenCount >= compactAtTokens

\* --------------------------------------------------------------- compactor

\* keepMessagesFromIndexOf keeping one message more than asked
keepMessagesFromIndexShort(msgs, keep) ==
  IF Len(msgs) <= keep THEN 0 ELSE Len(msgs) - keep - 1

\* messages.length <= KEEP_RECENT_MESSAGES ? 0 : messages.length - KEEP_RECENT_MESSAGES
keepMessagesFromIndexOf(msgs, keep) ==
  IF Len(msgs) <= keep THEN 0 ELSE Len(msgs) - keep

\* Array.prototype.slice(0, n) for n >= 0
SliceTo(msgs, n) == SubSeq(msgs, 1, IF n < Len(msgs) THEN n ELSE Len(msgs))

\* Array.prototype.slice(n) for n >= 0
SliceFrom(msgs, n) == SubSeq(msgs, (IF n < Len(msgs) THEN n ELSE Len(msgs)) + 1, Len(msgs))

messagesToCompactOf(msgs, keep) == SliceTo(msgs, keepMessagesFromIndexOf(msgs, keep))

recentMessagesOf(msgs, keep) == SliceFrom(msgs, keepMessagesFromIndexOf(msgs, keep))

\* existingSummary && existingSummary.trim().length > 0
\* hasExistingSummary taking every summary for absent
hasExistingSummaryNever(existingSummary) == FALSE

\* existingSummary && existingSummary.trim().length > 0
hasExistingSummary(existingSummary) ==
  existingSummary # None /\ Len(Trim(Get(existingSummary))) > 0

\* The parts of the prompt that vary: the "## Existing Summary" block, present
\* only when hasExistingSummary, and the messages to compact.
buildCompactionPrompt(existingSummary, toCompact) ==
  [existingSummary |-> IF hasExistingSummary(existingSummary)
                       THEN existingSummary ELSE None,
   messages |-> toCompact]

\* capSummary without the cap
capSummaryUncapped(text) == Trim(text)

\* result.text.trim(), capped at MAX_SUMMARY_LENGTH plus the marker
capSummary(text) ==
  LET newSummary == Trim(text)
  IN  IF Len(newSummary) > MaxSummaryLength
      THEN Substring0(newSummary, MaxSummaryLength) \o TruncationMarker
      ELSE newSummary

\* existingSummary || ""
orEmpty(existingSummary) ==
  IF existingSummary = None THEN << >> ELSE Get(existingSummary)

\* dbMessages.map(msg => ({ role, content }))
ToModelMessages(dbMessages) ==
  [i \in 1..Len(dbMessages) |->
     [role |-> dbMessages[i].role, content |-> dbMessages[i].content]]

\* ------------------------------------------------------------------ stream

\* No exec instance started: nothing written, nothing delivered.
IdleStream ==
  [frames |-> << >>, chunks |-> << >>, stdout |-> << >>, stderr |-> << >>,
   ended |-> FALSE]

\* ----------------------------------------------------------------- Session

\* cliLoop before its first prompt: no turn begun, no context built
IdleTurn ==
  [pc |-> "prompt", n |-> 0, userId |-> None, systemPrompt |-> None,
   context |-> << >>, usage |-> <<0, 0, 0>>]

Idle == sessionId # None /\ compaction = None

\* sessionId && dbGetSession(sessionId)
IsStored(requested) ==
  IF requested = None THEN FALSE
  ELSE IF Get(requested) \notin DOMAIN sessions THEN FALSE
  ELSE sessions[Get(requested)] # None

\* loadExisting leaving the summary of the new object unset
loadExistingWithoutSummary(id) ==
  /\ compaction = None
  /\ sessions[id] # None
  /\ sessionId' = Some(id)
  /\ summary' = None
  /\ totalTokens' = getTotalTokenCount(id)
  /\ last' = "loadOrCreate:existing"
  /\ UNCHANGED <<sessions, messages, seq, keepRecentMessages, compaction>>
  /\ UNCHANGED sbxVars
  /\ UNCHANGED cfgVars
  /\ UNCHANGED ioVars
  /\ UNCHANGED agentVars

\* Session.loadOrCreate(id) for an id that is stored
loadExisting(id) ==
  /\ compaction = None
  /\ sessions[id] # None
  /\ sessionId' = Some(id)
  /\ summary' = Get(sessions[id]).summary_text
  /\ totalTokens' = getTotalTokenCount(id)
  /\ last' = "loadOrCreate:existing"
  /\ UNCHANGED <<sessions, messages, seq, keepRecentMessages, compaction>>
  /\ UNCHANGED sbxVars
  /\ UNCHANGED cfgVars
  /\ UNCHANGED ioVars
  /\ UNCHANGED agentVars

\* loadOrCreateNew storing the new record under the id that was asked for
loadOrCreateNewAsRequested(requested) ==
  /\ compaction = None
  /\ ~IsStored(requested)
  /\ \E id \in DOMAIN sessions :
       /\ sessions[id] = None
       /\ (requested # None /\ Get(requested) \in DOMAIN sessions)
            => requested = Some(id)
       /\ sessions' = [sessions EXCEPT ![id] =
                         Some([summary_text |-> None, last_compacted_at |-> None])]
       /\ sessionId' = Some(id)
  /\ summary' = None
  /\ totalTokens' = 0
  /\ last' = "loadOrCreate:new"
  /\ UNCHANGED <<messages, seq, keepRecentMessages, compaction>>
  /\ UNCHANGED sbxVars
  /\ UNCHANGED cfgVars
  /\ UNCHANGED ioVars
  /\ UNCHANGED agentVars

\* Session.loadOrCreate() and Session.loadOrCreate(id) for an id that is not
\* stored: createSession() inserts a record under a fresh uuid.
loadOrCreateNew(requested) ==
  /\ compaction = None
  /\ ~IsStored(requested)
  /\ \E id \in DOMAIN sessions :
       /\ sessions[id] = None
       /\ requested # Some(id)
       /\ sessions' = [sessions EXCEPT ![id] =
                         Some([summary_text |-> None, last_compacted_at |-> None])]
       /\ sessionId' = Some(id)
  /\ summary' = None
  /\ totalTokens' = 0
  /\ last' = "loadOrCreate:new"
  /\ UNCHANGED <<messages, seq, keepRecentMessages, compaction>>
  /\ UNCHANGED sbxVars
  /\ UNCHANGED cfgVars
  /\ UNCHANGED ioVars
  /\ UNCHANGED agentVars

\* if (tokenCount) this.totalTokens += tokenCount
tokenIncrement(tokenCount) ==
  IF tokenCount # None /\ Get(tokenCount) # 0 THEN Get(tokenCount) ELSE 0

\* appendMessage + the in-memory accumulation of add{User,Assistant,System}Message
addMessageCore(role, content, tokenCount, now) ==
  /\ sessionId # None
  /\ totalTokens' = totalTokens + tokenIncrement(tokenCount)
  /\ messages' = messages \cup {NewRow(Get(sessionId), role, content, now, tokenCount)}
  /\ seq' = seq + 1
  /\ last' = "addMessage"
  /\ UNCHANGED <<sessions, keepRecentMessages, sessionId, summary, compaction>>
  /\ UNCHANGED sbxVars
  /\ UNCHANGED cfgVars
  /\ UNCHANGED ioVars

\* add{User,Assistant,System}Message called on the session object, within
\* the bounds on the ledger and on the total
addMessage(role, content, tokenCount, now) ==
  /\ seq < MaxMessages
  /\ totalTokens + tokenIncrement(tokenCount) <= MaxTotalTokens
  /\ addMessageCore(role, content, tokenCount, now)
  /\ UNCHANGED agentVars

addUserMessage ==
  \E c \in Contents, t \in UserTokenChoices, now \in ClockValues :
    addMessage("user", c, t, now)

addAssistantMessage ==
  \E c \in Contents, t \in AssistantTokenChoices, now \in ClockValues :
    addMessage("assistant", c, t, now)

addSystemMessage ==
  \E c \in Contents, t \in SystemTokenChoices, now \in ClockValues :
    addMessage("system", c, t, now)

\* updateTokenCount(inputTokens, outputTokens)
updateTokenCountCore(u) ==
  /\ Idle
  /\ totalTokens' = totalTokens + u[1] + u[2]
  /\ last' = "updateTokenCount"
  /\ UNCHANGED <<sessions, messages, seq, keepRecentMessages, sessionId, summary,
                 compaction>>
  /\ UNCHANGED sbxVars
  /\ UNCHANGED cfgVars
  /\ UNCHANGED ioVars

updateTokenCount ==
  /\ \E u \in UsageChoices :
       /\ totalTokens + u[1] + u[2] <= MaxTotalTokens
       /\ updateTokenCountCore(u)
  /\ UNCHANGED agentVars

\* pruneCutoff clearing the whole session when everything was compacted
pruneCutoffDeleteAll(dbMessages, keepMessagesFromIndex) ==
  IF keepMessagesFromIndex > 0 /\ keepMessagesFromIndex < Len(dbMessages)
  THEN Some(dbMessages[keepMessagesFromIndex + 1].id)
  ELSE IF keepMessagesFromIndex >= Len(dbMessages) /\ Len(dbMessages) > 0
       THEN Some(seq + 1)
       ELSE None

\* The id handed to deleteMessagesBeforeId after a compaction, null when
\* nothing is deleted (session.ts, "Delete old messages").
pruneCutoff(dbMessages, keepMessagesFromIndex) ==
  IF keepMessagesFromIndex > 0 /\ keepMessagesFromIndex < Len(dbMessages)
  THEN Some(dbMessages[keepMessagesFromIndex + 1].id)
  ELSE IF keepMessagesFromIndex >= Len(dbMessages) /\ Len(dbMessages) > 0
       THEN Some(dbMessages[Len(dbMessages)].id + 1)
       ELSE None

\* checkAndCompact from the return of compactConversation to its own return.
applyCompaction(dbMessages, newSummary, keepMessagesFromIndex, now) ==
  LET sid == Get(sessionId)
      cutoff == pruneCutoff(dbMessages, keepMessagesFromIndex)
      remaining == IF cutoff = None THEN messages
                   ELSE deleteMessagesBeforeIdIn(messages, sid, Get(cutoff))
  IN  /\ sessions' = setSummaryIn(sessions, sid, newSummary, now)
      /\ summary' = Some(newSummary)
      /\ messages' = remaining
      /\ totalTokens' = CeilDiv4(Len(newSummary)) + getTotalTokenCountIn(remaining, sid)
      /\ compaction' = None
      /\ last' = "checkAndCompact:true"
      /\ UNCHANGED <<seq, keepRecentMessages, sessionId>>
      /\ UNCHANGED sbxVars
      /\ UNCHANGED cfgVars
      /\ UNCHANGED ioVars

\* checkAndCompact below the threshold: returns false.
checkAndCompactSkipCore ==
  /\ Idle
  /\ ~shouldCompact(totalTokens, CompactAtTokens)
  /\ last' = "checkAndCompact:false"
  /\ UNCHANGED <<sessions, messages, seq, keepRecentMessages, sessionId, summary,
                 totalTokens, compaction>>
  /\ UNCHANGED sbxVars
  /\ UNCHANGED cfgVars
  /\ UNCHANGED ioVars

checkAndCompactSkip == checkAndCompactSkipCore /\ UNCHANGED agentVars

\* checkAndCompact at or above the threshold with at most
\* KEEP_RECENT_MESSAGES messages: compactConversation returns without calling
\* the summarizer and checkAndCompact runs to its end.
checkAndCompactNoFoldCore ==
  /\ Idle
  /\ shouldCompact(totalTokens, CompactAtTokens)
  /\ LET dbMessages == getAllMessages(Get(sessionId))
     IN  /\ Len(dbMessages) <= keepRecentMessages
         /\ \E now \in ClockValues :
              applyCompaction(dbMessages, orEmpty(summary),
                              keepMessagesFromIndexOf(dbMessages, keepRecentMessages), now)

checkAndCompactNoFold == checkAndCompactNoFoldCore /\ UNCHANGED agentVars

\* checkAndCompact at or above the threshold with more messages than
\* KEEP_RECENT_MESSAGES: the snapshot is read, the prompt is sent and the
\* call awaits the summarizer.
checkAndCompactStartCore ==
  /\ Idle
  /\ shouldCompact(totalTokens, CompactAtTokens)
  /\ LET dbMessages == getAllMessages(Get(sessionId))
         msgs == ToModelMessages(dbMessages)
     IN  /\ Len(dbMessages) > keepRecentMessages
         /\ compaction' =
              Some([dbMessages |-> dbMessages,
                    keepMessagesFromIndex |->
                      keepMessagesFromIndexOf(msgs, keepRecentMessages),
                    prompt |-> buildCompactionPrompt(
                                 summary, messagesToCompactOf(msgs, keepRecentMessages))])
  /\ UNCHANGED <<sessions, messages, seq, keepRecentMessages, sessionId, summary,
                 totalTokens, last>>
  /\ UNCHANGED sbxVars
  /\ UNCHANGED cfgVars
  /\ UNCHANGED ioVars

checkAndCompactStart == checkAndCompactStartCore /\ UNCHANGED agentVars

\* generateText resolves: the summary is capped, persisted, the ledger pruned.
checkAndCompactFinishCore ==
  /\ compaction # None
  /\ \E text \in RawTexts, now \in ClockValues :
       applyCompaction(Get(compaction).dbMessages, capSummary(text),
                       Get(compaction).keepMessagesFromIndex, now)

checkAndCompactFinish == checkAndCompactFinishCore /\ UNCHANGED agentVars

\* checkAndCompactFailCore dropping the running total as it throws
checkAndCompactFailForgets ==
  /\ compaction # None
  /\ compaction' = None
  /\ last' = "checkAndCompact:threw"
  /\ totalTokens' = 0
  /\ UNCHANGED <<sessions, messages, seq, keepRecentMessages, sessionId, summary>>
  /\ UNCHANGED sbxVars
  /\ UNCHANGED cfgVars
  /\ UNCHANGED ioVars

\* checkAndCompactFail stamping the compaction before it throws
checkAndCompactFailStamped ==
  /\ compaction # None
  /\ compaction' = None
  /\ last' = "checkAndCompact:threw"
  /\ \E now \in ClockValues :
       sessions' = setSummaryIn(sessions, Get(sessionId), orEmpty(summary), now)
  /\ summary' = Some(orEmpty(summary))
  /\ UNCHANGED <<messages, seq, keepRecentMessages, sessionId, totalTokens>>
  /\ UNCHANGED sbxVars
  /\ UNCHANGED cfgVars
  /\ UNCHANGED ioVars
  /\ UNCHANGED agentVars

\* generateText rejects: compactConversation rethrows, checkAndCompact throws.
checkAndCompactFailCore ==
  /\ compaction # None
  /\ compaction' = None
  /\ last' = "checkAndCompact:threw"
  /\ UNCHANGED <<sessions, messages, seq, keepRecentMessages, sessionId, summary,
                 totalTokens>>
  /\ UNCHANGED sbxVars
  /\ UNCHANGED cfgVars
  /\ UNCHANGED ioVars

checkAndCompactFail == checkAndCompactFailCore /\ UNCHANGED agentVars

\* "# Previous Conversation Summary\n\n"
SummaryHeading == "# Previous Conversation Summary\n\n"

\* A string of the context as the sequence of its pieces.
AsText(c) == <<c>>

\* buildPromptContextOf with the summary block ahead of the preamble
buildPromptContextSummaryFirst(systemPrompt, sum, dbMessages) ==
  (IF sum # None /\ Get(sum) # << >>
   THEN << [role |-> "system", content |-> AsText(SummaryHeading) \o Get(sum)] >>
   ELSE << >>)
  \o (IF systemPrompt # None /\ Get(systemPrompt) # ""
      THEN << [role |-> "system", content |-> AsText(Get(systemPrompt))] >>
      ELSE << >>)
  \o [i \in 1..Len(dbMessages) |->
        [role |-> dbMessages[i].role, content |-> AsText(dbMessages[i].content)]]

\* buildPromptContext over the summary of the object and the rows read:
\* if (systemPrompt) push; if (this.summary) push; for (msg of dbMessages) push
buildPromptContextOf(systemPrompt, sum, dbMessages) ==
  (IF systemPrompt # None /\ Get(systemPrompt) # ""
   THEN << [role |-> "system", content |-> AsText(Get(systemPrompt))] >>
   ELSE << >>)
  \o (IF sum # None /\ Get(sum) # << >>
      THEN << [role |-> "system", content |-> AsText(SummaryHeading) \o Get(sum)] >>
      ELSE << >>)
  \o [i \in 1..Len(dbMessages) |->
        [role |-> dbMessages[i].role, content |-> AsText(dbMessages[i].content)]]

\* Session.buildPromptContext(systemPrompt?)
buildPromptContext(systemPrompt) ==
  buildPromptContextOf(systemPrompt, summary, getAllMessages(Get(sessionId)))

\* The sessionId argument of loadOrCreate: none, an id of the store, or an
\* id no session ever had
RequestedIds == {None} \cup {Some(id) : id \in DOMAIN sessions \cup {"unknown"}}

loadOrCreate ==
  \/ \E id \in DOMAIN sessions : loadExisting(id)
  \/ \E requested \in RequestedIds : loadOrCreateNew(requested)

MemInit ==
  /\ sessions = [id \in SessionIds |-> None]
  /\ messages = {}
  /\ seq = 0
  /\ keepRecentMessages \in KeepChoices
  /\ sessionId = None
  /\ summary = None
  /\ totalTokens = 0
  /\ compaction = None
  /\ last = "none"
  /\ turn = IdleTurn

MemNext ==
  \/ loadOrCreate
  \/ addUserMessage
  \/ addAssistantMessage
  \/ addSystemMessage
  \/ updateTokenCount
  \/ checkAndCompactSkip
  \/ checkAndCompactNoFold
  \/ checkAndCompactStart
  \/ checkAndCompactFinish
  \/ checkAndCompactFail


\* ----------------------------------------------------------------- sandbox

Callers == {"c1"}
ContainerIds == {1, 2, 3, 4, 5}
\* the values of inspectData.ExitCode (137: the process was killed)
ExitCodes == {0, 1, 137}
\* the cmd argument of exec()
Commands == {"echo hi", "touch a", "ls b"}

\* What /bin/sh -c cmd does when it runs to its end in the container: the
\* frames of its multiplexed output stream (streamType 1 is stdout, 2 is
\* stderr), its exit code and the files it writes in the working directory.
Run(cmd) ==
  CASE cmd = "echo hi" ->
         [frames |-> << [streamType |-> 1, payload |-> "hi"] >>,
          exitCode |-> 0, writes |-> {}]
    [] cmd = "touch a" ->
         [frames |-> <<>>, exitCode |-> 0, writes |-> {"a"}]
    [] cmd = "ls b" ->
         [frames |-> << [streamType |-> 2, payload |-> "ls: b: No such file or directory"] >>,
          exitCode |-> 1, writes |-> {}]

\* Demux taking every frame for the stream asked for
DemuxAll(frames, streamType) == [i \in 1..Len(frames) |-> frames[i].payload]

\* stream.on("data"): the payloads of the frames of one stream type, in order
RECURSIVE Demux(_, _)
Demux(frames, streamType) ==
  IF frames = <<>> THEN <<>>
  ELSE IF Head(frames).streamType = streamType
       THEN <<Head(frames).payload>> \o Demux(Tail(frames), streamType)
       ELSE Demux(Tail(frames), streamType)

\* The multiplexed stream byte by byte. A frame is its header
\* [stream_type, 0, 0, 0, size1, size2, size3, size4] followed by its payload;
\* the engine writes the frames one after the other and the socket delivers
\* the bytes in chunks of its own choosing.
HeaderLength == 8

\* The bytes "h" and "hi"
Payloads == { <<104>>, <<104, 105>> }
StreamTypes == {1, 2}
Frames == [streamType : StreamTypes, payload : Payloads]

FrameBytes(frame) ==
  <<frame.streamType, 0, 0, 0, 0, 0, 0, Len(frame.payload)>> \o frame.payload

RECURSIVE StreamBytes(_)
StreamBytes(frames) ==
  IF frames = << >> THEN << >>
  ELSE FrameBytes(Head(frames)) \o StreamBytes(Tail(frames))

\* Buffer.prototype.subarray(from, to)
Subarray(chunk, from, to) ==
  SubSeq(chunk, (IF from < Len(chunk) THEN from ELSE Len(chunk)) + 1,
                IF to < Len(chunk) THEN to ELSE Len(chunk))

\* Buffer.prototype.toString() of bytes below 128: one character per byte
BufferToString(bytes) == bytes

\* stream.on("data", chunk => ...): the first 8 bytes of the chunk are taken
\* for a header and the rest of the chunk for the payload of that one frame.
onData(acc, chunk) ==
  LET header == Subarray(chunk, 0, HeaderLength)
      payload == Subarray(chunk, HeaderLength, Len(chunk))
      streamType == IF header = << >> THEN None ELSE Some(header[1])
  IN  IF streamType = Some(1)
      THEN [acc EXCEPT !.stdout = @ \o BufferToString(payload)]
      ELSE IF streamType = Some(2)
      THEN [acc EXCEPT !.stderr = @ \o BufferToString(payload)]
      ELSE acc

\* The chunks a sequence of bytes is delivered in: at most MaxChunks pieces,
\* none empty, cut at any byte.
RECURSIVE DropEmpty(_)
DropEmpty(chunks) ==
  IF chunks = << >> THEN << >>
  ELSE IF Head(chunks) = << >> THEN DropEmpty(Tail(chunks))
  ELSE <<Head(chunks)>> \o DropEmpty(Tail(chunks))

Deliveries(bytes) ==
  { DropEmpty([i \in 1..MaxChunks |->
                 SubSeq(bytes, (IF i = 1 THEN 0 ELSE cuts[i - 1]) + 1,
                               IF i = MaxChunks THEN Len(bytes) ELSE cuts[i])])
    : cuts \in { c \in [1..(MaxChunks - 1) -> 0..Len(bytes)] :
                   \A i \in 1..(MaxChunks - 2) : c[i] <= c[i + 1] } }

\* A chunk arrives and the data handler runs.
streamData ==
  /\ stream.chunks # << >>
  /\ stream' = [onData(stream, Head(stream.chunks)) EXCEPT
                  !.chunks = Tail(stream.chunks)]
  /\ UNCHANGED memVars
  /\ UNCHANGED sbxVars
  /\ UNCHANGED cfgVars
  /\ UNCHANGED agentVars

\* The stream ends: the accumulators are what exec() resolves with.
streamEnd ==
  /\ stream.chunks = << >>
  /\ ~stream.ended
  /\ stream' = [stream EXCEPT !.ended = TRUE]
  /\ UNCHANGED memVars
  /\ UNCHANGED sbxVars
  /\ UNCHANGED cfgVars
  /\ UNCHANGED agentVars

\* exitCodeOrZero reporting success whatever the command exited with
exitCodeAlwaysZero(ExitCode) == 0

\* inspectData.ExitCode ?? 0
exitCodeOrZero(ExitCode) == IF ExitCode = None THEN 0 ELSE Get(ExitCode)

\* The bind mount of createContainer: process.cwd() at config.docker.workdir.
WorkspaceBind == "cwd:workdir:rw"

\* NewContainer without the bind mount
NewContainerUnmounted(id) ==
  [id |-> id, running |-> FALSE, binds |-> {}, procs |-> {}]

\* The container docker.createContainer() makes.
\* procs: the commands left running in the container by exec() calls that
\* timed out.
NewContainer(id) ==
  [id |-> id, running |-> FALSE, binds |-> {WorkspaceBind}, procs |-> {}]

\* Errors, as the catch block of exec() sees them: the words of error.message
\* and error.statusCode.
Err(words, status) == [message |-> words, statusCode |-> status]

\* new Error(`Command timed out after ${timeoutMs}ms`)
TimeoutError == Err(<<"Command", "timed", "out", "after", "30000ms">>, None)
\* new Error("No stream returned")
NoStreamError == Err(<<"No", "stream", "returned">>, None)
\* new Error("Container not initialized")
NotInitializedError == Err(<<"Container", "not", "initialized">>, None)
\* a broken connection to the engine
StreamError == Err(<<"read", "ECONNRESET">>, None)
\* engine replies, as dockerode reports them
NotFoundError == Err(<<"(HTTP", "code", "404)", "no", "such", "container">>, Some(404))
NotRunningError == Err(<<"(HTTP", "code", "409)", "container", "stopped/paused">>, Some(409))
ConflictError == Err(<<"(HTTP", "code", "409)", "conflict", "-", "the", "container",
                       "name", "is", "already", "in", "use">>, Some(409))
NotModifiedError == Err(<<"(HTTP", "code", "304)", "container", "already",
                          "started/stopped">>, Some(304))
ServerError == Err(<<"(HTTP", "code", "500)", "server", "error">>, Some(500))
\* the engine cannot start the process of the command in a running container
RuntimeError == Err(<<"(HTTP", "code", "500)", "server", "error", "-", "unable", "to",
                      "start", "container", "process">>, Some(500))

\* String.prototype.includes, on the words of a message
Includes(words, w) == \E i \in 1..Len(words) : words[i] = w

\* isCrashError taking every error for a crash
isCrashErrorAny(error) == TRUE

\* error.message?.includes("container") || error.statusCode === 404
isCrashError(error) ==
  Includes(error.message, "container") \/ error.statusCode = Some(404)

\* runShellTool.execute when exec() returned result
toolReturn(result) ==
  [success |-> result.exitCode = 0, exitCode |-> result.exitCode,
   stdout |-> result.stdout, stderr |-> result.stderr]

\* toolCatch without the sentinel: the exit code of a failed command
toolCatchAsFailure(error) ==
  [success |-> FALSE, exitCode |-> 1, stdout |-> <<>>,
   stderr |-> IF error.message # <<>> THEN error.message
              ELSE <<"Command", "execution", "failed">>]

\* runShellTool.execute when exec() threw error
toolCatch(error) ==
  [success |-> FALSE, exitCode |-> -1, stdout |-> <<>>,
   stderr |-> IF error.message # <<>> THEN error.message
              ELSE <<"Command", "execution", "failed">>]

ByName == [kind |-> "name", id |-> 0]
ById(id) == [kind |-> "id", id |-> id]

\* The container a handle addresses, null when there is none.
Resolve(handle) ==
  IF container = None THEN None
  ELSE IF handle.kind = "name" \/ handle.id = Get(container).id THEN container
  ELSE None

IdsInUse ==
  (IF container = None THEN {} ELSE {Get(container).id})
  \cup (IF containerInstance = None THEN {} ELSE {Get(containerInstance).id})
  \cup UNION { IF calls[c].handle = None THEN {} ELSE {Get(calls[c].handle).id}
               : c \in DOMAIN calls }

FreshId == CHOOSE id \in ContainerIds : id \notin IdsInUse

IdleCall == [pc |-> "idle", ctx |-> "none", depth |-> 0, handle |-> None,
             error |-> None, result |-> None, cmd |-> "", tool |-> None]

Bump(depth) == IF depth < MaxDepth THEN depth + 1 ELSE MaxDepth

\* exec() is called.
execCall(c) ==
  /\ calls[c].pc \in {"idle", "returned", "threw"}
  /\ \E cmd \in Commands :
       calls' = [calls EXCEPT ![c] = [IdleCall EXCEPT !.pc = "inspect", !.cmd = cmd]]
  /\ UNCHANGED <<container, containerInstance>>
  /\ UNCHANGED <<teardown, workspace>>
  /\ UNCHANGED memVars
  /\ UNCHANGED cfgVars
  /\ UNCHANGED ioVars
  /\ UNCHANGED agentVars

\* exec() throws error to its caller.
Throw(c, error) ==
  calls' = [calls EXCEPT ![c].pc = "threw", ![c].error = Some(error),
                         ![c].handle = None, ![c].tool = Some(toolCatch(error))]

\* ensureContainer() has returned: exec() checks the cached handle and calls
\* containerInstance.exec().
EnsureReturns(c, instance) ==
  IF instance = None
  THEN Throw(c, NotInitializedError)
  ELSE calls' = [calls EXCEPT ![c].pc = "exec", ![c].handle = instance]

\* createContainer() has returned to ensureContainer() or recreateContainer().
CreateReturns(c, instance) ==
  IF calls[c].ctx = "recreate"
  THEN \* return exec(cmd, timeoutMs)
       calls' = [calls EXCEPT ![c].pc = "inspect", ![c].ctx = "none",
                              ![c].depth = Bump(calls[c].depth),
                              ![c].handle = None]
  ELSE EnsureReturns(c, instance)

\* ensureContainer: container.inspect() answers.
ensureInspect(c) ==
  /\ calls[c].pc = "inspect"
  /\ \/ /\ container # None /\ Get(container).running
        /\ containerInstance' = Some(ByName)
        /\ EnsureReturns(c, Some(ByName))
        /\ UNCHANGED container
     \/ /\ container # None /\ ~Get(container).running
        /\ calls' = [calls EXCEPT ![c].pc = "start"]
        /\ UNCHANGED <<container, containerInstance>>
     \/ /\ container = None
        /\ calls' = [calls EXCEPT ![c].pc = "create", ![c].ctx = "ensure"]
        /\ UNCHANGED <<container, containerInstance>>
     \/ /\ Throw(c, ServerError)
        /\ UNCHANGED <<container, containerInstance>>
  /\ UNCHANGED <<teardown, workspace>>
  /\ UNCHANGED memVars
  /\ UNCHANGED cfgVars
  /\ UNCHANGED ioVars
  /\ UNCHANGED agentVars

\* ensureContainer: container.start() of the existing container answers.
ensureStart(c) ==
  /\ calls[c].pc = "start"
  /\ \/ /\ container # None /\ ~Get(container).running
        /\ container' = Some([Get(container) EXCEPT !.running = TRUE])
        /\ containerInstance' = Some(ByName)
        /\ EnsureReturns(c, Some(ByName))
     \/ /\ container # None /\ Get(container).running
        /\ Throw(c, NotModifiedError)
        /\ UNCHANGED <<container, containerInstance>>
     \/ /\ container = None
        /\ calls' = [calls EXCEPT ![c].pc = "create", ![c].ctx = "ensure"]
        /\ UNCHANGED <<container, containerInstance>>
  /\ UNCHANGED <<teardown, workspace>>
  /\ UNCHANGED memVars
  /\ UNCHANGED cfgVars
  /\ UNCHANGED ioVars
  /\ UNCHANGED agentVars

\* createContainer: docker.createContainer() answers.
createContainerCreate(c) ==
  /\ calls[c].pc = "create"
  /\ IF container = None
     THEN /\ container' = Some(NewContainer(FreshId))
          /\ calls' = [calls EXCEPT ![c].pc = "startNew",
                                    ![c].handle = Some(ById(FreshId))]
     ELSE /\ Throw(c, ConflictError)
          /\ UNCHANGED container
  /\ UNCHANGED containerInstance
  /\ UNCHANGED <<teardown, workspace>>
  /\ UNCHANGED memVars
  /\ UNCHANGED cfgVars
  /\ UNCHANGED ioVars
  /\ UNCHANGED agentVars

\* createContainer: container.start() of the new container answers.
createContainerStart(c) ==
  /\ calls[c].pc = "startNew"
  /\ LET target == Resolve(Get(calls[c].handle))
     IN  IF target = None
         THEN /\ Throw(c, NotFoundError)
              /\ UNCHANGED <<container, containerInstance>>
         ELSE IF Get(target).running
         THEN /\ Throw(c, NotModifiedError)
              /\ UNCHANGED <<container, containerInstance>>
         ELSE /\ container' = Some([Get(container) EXCEPT !.running = TRUE])
              /\ containerInstance' = calls[c].handle
              /\ CreateReturns(c, calls[c].handle)
  /\ UNCHANGED <<teardown, workspace>>
  /\ UNCHANGED memVars
  /\ UNCHANGED cfgVars
  /\ UNCHANGED ioVars
  /\ UNCHANGED agentVars

\* The catch block of exec(): a crash-type error starts recreateContainer()
\* (up to its first engine call), any other error is thrown.
Catch(c, error) ==
  IF isCrashError(error)
  THEN IF containerInstance # None
       THEN /\ calls' = [calls EXCEPT ![c].pc = "stop", ![c].ctx = "recreate",
                                      ![c].error = Some(error),
                                      ![c].handle = containerInstance]
            /\ UNCHANGED containerInstance
       ELSE /\ calls' = [calls EXCEPT ![c].pc = "create", ![c].ctx = "recreate",
                                      ![c].error = Some(error),
                                      ![c].handle = None]
            /\ containerInstance' = None
  ELSE /\ Throw(c, error)
       /\ UNCHANGED containerInstance

\* containerInstance.exec() answers.
execCreate(c) ==
  /\ calls[c].pc = "exec"
  /\ LET target == Resolve(Get(calls[c].handle))
     IN  IF target = None THEN Catch(c, NotFoundError)
         ELSE IF ~Get(target).running THEN Catch(c, NotRunningError)
         ELSE /\ calls' = [calls EXCEPT ![c].pc = "run"]
              /\ UNCHANGED containerInstance
  /\ UNCHANGED container
  /\ UNCHANGED <<teardown, workspace>>
  /\ UNCHANGED memVars
  /\ UNCHANGED cfgVars
  /\ UNCHANGED ioVars
  /\ UNCHANGED agentVars

\* The errors the promise of one attempt can reject with, besides the timeout.
RunErrors ==
  {NoStreamError, StreamError}
  \cup (IF container # None /\ Get(container).running THEN {RuntimeError} ELSE {})
  \cup (IF container = None THEN {NotFoundError} ELSE {})
  \cup (IF container # None /\ ~Get(container).running THEN {NotRunningError} ELSE {})

\* exec() returns result to its caller.
Return(c, result) ==
  calls' = [calls EXCEPT ![c].pc = "returned", ![c].result = Some(result),
                         ![c].handle = None, ![c].tool = Some(toolReturn(result))]

\* The stream ends and execInstance.inspect() answers: the promise resolves.
\* A command that ran to its end has written its files and reports its exit
\* code; one whose container was killed under it reports 137 or no exit code.
execResolve(c) ==
  /\ calls[c].pc = "run"
  /\ container # None
  /\ LET r == Run(calls[c].cmd)
     IN  IF Get(container).running
         THEN /\ Return(c, [stdout |-> Demux(r.frames, 1),
                            stderr |-> Demux(r.frames, 2),
                            exitCode |-> exitCodeOrZero(Some(r.exitCode))])
              /\ workspace' = IF WorkspaceBind \in Get(container).binds
                              THEN workspace \cup r.writes ELSE workspace
         ELSE /\ \E ExitCode \in {None, Some(137)} :
                   Return(c, [stdout |-> <<>>, stderr |-> <<>>,
                              exitCode |-> exitCodeOrZero(ExitCode)])
              /\ UNCHANGED workspace
  /\ UNCHANGED <<container, containerInstance, teardown>>
  /\ UNCHANGED memVars
  /\ UNCHANGED cfgVars
  /\ UNCHANGED ioVars
  /\ UNCHANGED agentVars

\* execTimeout with the command ended by the timeout
execTimeoutTerminates(c) ==
  /\ calls[c].pc = "run"
  /\ Catch(c, TimeoutError)
  /\ UNCHANGED container
  /\ UNCHANGED <<teardown, workspace>>
  /\ UNCHANGED memVars
  /\ UNCHANGED cfgVars
  /\ UNCHANGED ioVars
  /\ UNCHANGED agentVars

\* The timer fires first: the promise rejects with the timeout error. Nothing
\* is done about the command: in a container that still runs it goes on.
execTimeout(c) ==
  /\ calls[c].pc = "run"
  /\ Catch(c, TimeoutError)
  /\ LET target == Resolve(Get(calls[c].handle))
     IN  container' = IF target # None /\ Get(target).running
                      THEN Some([Get(container) EXCEPT
                                   !.procs = @ \cup {calls[c].cmd}])
                      ELSE container
  /\ UNCHANGED <<teardown, workspace>>
  /\ UNCHANGED memVars
  /\ UNCHANGED cfgVars
  /\ UNCHANGED ioVars
  /\ UNCHANGED agentVars

\* start(), the stream or inspect() fails: the promise rejects.
execReject(c) ==
  /\ calls[c].pc = "run"
  /\ \E error \in RunErrors : Catch(c, error)
  /\ UNCHANGED container
  /\ UNCHANGED <<teardown, workspace>>
  /\ UNCHANGED memVars
  /\ UNCHANGED cfgVars
  /\ UNCHANGED ioVars
  /\ UNCHANGED agentVars

\* recreateContainer: containerInstance.stop() answers; a failure skips
\* remove() and is ignored.
recreateStop(c) ==
  /\ calls[c].pc = "stop"
  /\ LET target == Resolve(Get(calls[c].handle))
     IN  IF target # None /\ Get(target).running
         THEN /\ container' = Some([Get(container) EXCEPT !.running = FALSE,
                                                       !.procs = {}])
              /\ calls' = [calls EXCEPT ![c].pc = "remove"]
              /\ UNCHANGED containerInstance
         ELSE /\ containerInstance' = None
              /\ calls' = [calls EXCEPT ![c].pc = "create", ![c].handle = None]
              /\ UNCHANGED container
  /\ UNCHANGED <<teardown, workspace>>
  /\ UNCHANGED memVars
  /\ UNCHANGED cfgVars
  /\ UNCHANGED ioVars
  /\ UNCHANGED agentVars

\* recreateRemove keeping the cached handle
recreateRemoveKeepsHandle(c) ==
  /\ calls[c].pc = "remove"
  /\ container' = IF Resolve(Get(calls[c].handle)) # None THEN None ELSE container
  /\ calls' = [calls EXCEPT ![c].pc = "create", ![c].handle = None]
  /\ UNCHANGED <<containerInstance, teardown, workspace>>
  /\ UNCHANGED memVars
  /\ UNCHANGED cfgVars
  /\ UNCHANGED ioVars
  /\ UNCHANGED agentVars

\* recreateContainer: containerInstance.remove() answers; a failure is ignored.
recreateRemove(c) ==
  /\ calls[c].pc = "remove"
  /\ container' = IF Resolve(Get(calls[c].handle)) # None THEN None ELSE container
  /\ containerInstance' = None
  /\ calls' = [calls EXCEPT ![c].pc = "create", ![c].handle = None]
  /\ UNCHANGED <<teardown, workspace>>
  /\ UNCHANGED memVars
  /\ UNCHANGED cfgVars
  /\ UNCHANGED ioVars
  /\ UNCHANGED agentVars

IdleTeardown == [pc |-> "idle", handle |-> None, error |-> None]

\* stopContainer() is called: without a cached handle it returns at once.
stopContainerCall ==
  /\ teardown.pc \in {"idle", "returned", "threw"}
  /\ teardown' = IF containerInstance = None
                 THEN [IdleTeardown EXCEPT !.pc = "returned"]
                 ELSE [IdleTeardown EXCEPT !.pc = "stop", !.handle = containerInstance]
  /\ UNCHANGED <<container, containerInstance, calls, workspace>>
  /\ UNCHANGED memVars
  /\ UNCHANGED cfgVars
  /\ UNCHANGED ioVars
  /\ UNCHANGED agentVars

\* stopContainer: containerInstance.stop() answers; a failure is thrown.
stopContainerStop ==
  /\ teardown.pc = "stop"
  /\ LET target == Resolve(Get(teardown.handle))
     IN  IF target = None
         THEN /\ teardown' = [teardown EXCEPT !.pc = "threw",
                                              !.error = Some(NotFoundError)]
              /\ UNCHANGED container
         ELSE IF ~Get(target).running
         THEN /\ teardown' = [teardown EXCEPT !.pc = "threw",
                                              !.error = Some(NotModifiedError)]
              /\ UNCHANGED container
         ELSE /\ container' = Some([Get(container) EXCEPT !.running = FALSE,
                                                       !.procs = {}])
              /\ teardown' = [teardown EXCEPT !.pc = "remove"]
  /\ UNCHANGED <<containerInstance, calls, workspace>>
  /\ UNCHANGED memVars
  /\ UNCHANGED cfgVars
  /\ UNCHANGED ioVars
  /\ UNCHANGED agentVars

\* stopContainer: containerInstance.remove() answers; the handle is cleared
\* after it, a failure is thrown.
stopContainerRemove ==
  /\ teardown.pc = "remove"
  /\ IF Resolve(Get(teardown.handle)) = None
     THEN /\ teardown' = [teardown EXCEPT !.pc = "threw",
                                          !.error = Some(NotFoundError)]
          /\ UNCHANGED <<container, containerInstance>>
     ELSE /\ container' = None
          /\ containerInstance' = None
          /\ teardown' = [teardown EXCEPT !.pc = "returned", !.handle = None]
  /\ UNCHANGED <<calls, workspace>>
  /\ UNCHANGED memVars
  /\ UNCHANGED cfgVars
  /\ UNCHANGED ioVars
  /\ UNCHANGED agentVars

stopContainer ==
  \/ stopContainerCall
  \/ stopContainerStop
  \/ stopContainerRemove

\* A command left behind by a timeout comes to its end: stream "end" fires,
\* the cleared timer is cleared again, and resolve() on the promise that was
\* rejected does nothing.
commandEndsLate ==
  /\ container # None /\ Get(container).running
  /\ \E cmd \in Get(container).procs :
       /\ container' = Some([Get(container) EXCEPT !.procs = @ \ {cmd}])
       /\ workspace' = IF WorkspaceBind \in Get(container).binds
                       THEN workspace \cup Run(cmd).writes ELSE workspace
  /\ UNCHANGED <<containerInstance, calls, teardown>>
  /\ UNCHANGED memVars
  /\ UNCHANGED cfgVars
  /\ UNCHANGED ioVars
  /\ UNCHANGED agentVars

\* The environment: the container is killed (docker kill) or removed
\* (docker rm -f) from outside.
Kill ==
  /\ container # None /\ Get(container).running
  /\ container' = Some([Get(container) EXCEPT !.running = FALSE,
                                                       !.procs = {}])
  /\ UNCHANGED <<containerInstance, calls>>
  /\ UNCHANGED <<teardown, workspace>>
  /\ UNCHANGED memVars
  /\ UNCHANGED cfgVars
  /\ UNCHANGED ioVars
  /\ UNCHANGED agentVars

Remove ==
  /\ container # None
  /\ container' = None
  /\ UNCHANGED <<containerInstance, calls>>
  /\ UNCHANGED <<teardown, workspace>>
  /\ UNCHANGED memVars
  /\ UNCHANGED cfgVars
  /\ UNCHANGED ioVars
  /\ UNCHANGED agentVars

\* One step of exec() itself.
execStep(c) ==
  \/ ensureInspect(c)
  \/ ensureStart(c)
  \/ createContainerCreate(c)
  \/ createContainerStart(c)
  \/ execCreate(c)
  \/ execResolve(c)
  \/ execTimeout(c)
  \/ execReject(c)
  \/ recreateStop(c)
  \/ recreateRemove(c)

SbxInit ==
  /\ container = None
  /\ containerInstance = None
  /\ calls = [c \in Callers |-> IdleCall]
  /\ teardown = IdleTeardown
  /\ workspace = {}
  /\ stream = IdleStream

SbxNext ==
  \/ \E c \in Callers : execCall(c)
  \/ \E c \in Callers : execStep(c)
  \/ commandEndsLate
  \/ stopContainer
  \/ Kill
  \/ Remove

\* ------------------------------------------------------------ configuration

\* the defaults of envSchema
DefaultMaxTokens == 200000
DefaultCompactAtPercent == 75

\* Values of MAX_TOKENS and COMPACT_AT_PERCENT in process.env: unset, or a
\* number (z.coerce.number).
MaxTokensChoices == {None} \cup { Some(n) : n \in 0..MaxEnvTokens }
PercentChoices == {None} \cup { Some(p) : p \in {-1, 0, 1, 50, 75, 99, 100, 101} }
EnvChoices == [MAX_TOKENS : MaxTokensChoices, COMPACT_AT_PERCENT : PercentChoices]

\* .default(value)
orDefault(value, default) == IF value = None THEN default ELSE Get(value)

\* z.coerce.number().min(0).max(100)
percentAccepted(percent) == percent >= 0 /\ percent <= 100

\* Math.floor(env.MAX_TOKENS * (env.COMPACT_AT_PERCENT / 100)), on whole
\* numbers
compactAtTokensOf(maxTokens, percent) == (maxTokens * percent) \div 100

\* loadEnv() and the exported config; exited when the schema rejects env
\* and the process ends with process.exit(1).
configOf(e) ==
  LET MAX_TOKENS == orDefault(e.MAX_TOKENS, DefaultMaxTokens)
      COMPACT_AT_PERCENT == orDefault(e.COMPACT_AT_PERCENT, DefaultCompactAtPercent)
  IN  IF ~percentAccepted(COMPACT_AT_PERCENT)
      THEN Some([exited |-> TRUE, maxTokens |-> 0, compactAtTokens |-> 0,
                 compactAtPercent |-> 0])
      ELSE Some([exited |-> FALSE, maxTokens |-> MAX_TOKENS,
                 compactAtTokens |-> compactAtTokensOf(MAX_TOKENS, COMPACT_AT_PERCENT),
                 compactAtPercent |-> COMPACT_AT_PERCENT])

\* The module config/env.ts is loaded.
loadEnv ==
  /\ config = None
  /\ config' = configOf(env)
  /\ UNCHANGED env
  /\ UNCHANGED memVars
  /\ UNCHANGED sbxVars
  /\ UNCHANGED agentVars
  /\ UNCHANGED ioVars

\* An environment whose threshold is CompactAtTokens, loaded.
SessionEnv ==
  [MAX_TOKENS |-> Some(2 * CompactAtTokens), COMPACT_AT_PERCENT |-> Some(50)]
CfgLoaded ==
  /\ env = SessionEnv
  /\ config = configOf(SessionEnv)

\* ---------------------------------------------------------- specifications

\* The configuration, loaded from any environment.
ConfigInit ==
  /\ MemInit
  /\ SbxInit
  /\ env \in EnvChoices
  /\ config = None
ConfigNext == loadEnv
ConfigSpec == ConfigInit /\ [][ConfigNext]_vars

\* The conversation memory, driven through the Session operations.
Init == MemInit /\ SbxInit /\ CfgLoaded
Next == MemNext
Spec == Init /\ [][Next]_vars

\* The sandbox, driven through exec() with the environment failing at will.
SandboxInit ==
  /\ SbxInit
  /\ MemInit
  /\ CfgLoaded
  /\ keepRecentMessages = MaxKeep
SandboxNext == SbxNext
SandboxSpec == SandboxInit /\ [][SandboxNext]_vars

\* The same, with every step of exec() eventually taken: each engine call
\* answers and the timer fires or the stream ends.
FairSandboxSpec ==
  SandboxSpec /\ \A c \in Callers : WF_vars(execStep(c))

\* The errors that come from the engine or the timer misbehaving, not from
\* the state of the container.
SpuriousErrors == {ServerError, TimeoutError, NoStreamError, StreamError, RuntimeError}

\* One step of exec() with the engine answering by the state of the container
\* and the command ending before its timer.
execStepSound(c) ==
  /\ execStep(c)
  /\ calls'[c].error \notin { Some(e) : e \in SpuriousErrors }

\* The sandbox with a sound engine and, as the only disturbance, the
\* container being killed from outside at any moment.
CrashNext ==
  \/ \E c \in Callers : execCall(c)
  \/ \E c \in Callers : execStepSound(c)
  \/ Kill
CrashSpec == SandboxInit /\ [][CrashNext]_vars

\* The sandbox left alone: a sound engine, no disturbance, and one operation
\* of the manager (exec or stopContainer) at a time.
NoCallInFlight == \A c \in Callers : calls[c].pc \in {"idle", "returned", "threw"}
NoTeardownInFlight == teardown.pc \in {"idle", "returned", "threw"}
QuietNext ==
  \/ \E c \in Callers : NoTeardownInFlight /\ execCall(c)
  \/ \E c \in Callers : execStepSound(c)
  \/ NoCallInFlight /\ stopContainer
QuietSpec == SandboxInit /\ [][QuietNext]_vars

\* One manager operation at a time, with the container killed or removed
\* from outside at any moment.
SequentialNext ==
  \/ QuietNext
  \/ Kill
  \/ Remove
SequentialSpec == SandboxInit /\ [][SequentialNext]_vars

\* The same, with every engine call of exec() answered and every command
\* coming to its end.
FairQuietSpec ==
  QuietSpec /\ \A c \in Callers : WF_vars(execStepSound(c))

\* Two exec() calls of one process at a time (the tool calls of one model
\* step) running the same command, stopContainer(), and the container
\* crashing; the engine answers every call by the state of the container.
ToolCalls == {"c1", "c2"}
InterleavedInit ==
  /\ MemInit
  /\ CfgLoaded
  /\ keepRecentMessages = MaxKeep
  /\ container = None
  /\ containerInstance = None
  /\ calls = [c \in ToolCalls |-> IdleCall]
  /\ teardown = IdleTeardown
  /\ workspace = {}
  /\ stream = IdleStream
InterleavedNext ==
  \/ \E c \in ToolCalls : execCall(c) /\ calls'[c].cmd = "touch a"
  \/ \E c \in ToolCalls : execStepSound(c)
  \/ stopContainer
  \/ Kill
InterleavedSpec == InterleavedInit /\ [][InterleavedNext]_vars

\* Two exec() calls, one each of two tool calls, issued while no sandbox
\* exists; the engine answers every call by the state of the container and
\* nothing else touches it.
ColdStartNext ==
  \/ \E c \in ToolCalls : calls[c].pc = "idle" /\ execCall(c)
  \/ \E c \in ToolCalls : execStepSound(c)
ColdStartSpec == InterleavedInit /\ [][ColdStartNext]_vars

\* The session object of one process after Session.loadOrCreate() on an empty
\* store.
SessionLoaded ==
  /\ sessions = [id \in SessionIds |->
                   IF id = "s1"
                   THEN Some([summary_text |-> None, last_compacted_at |-> None])
                   ELSE None]
  /\ messages = {}
  /\ seq = 0
  /\ keepRecentMessages \in KeepChoices
  /\ sessionId = Some("s1")
  /\ summary = None
  /\ totalTokens = 0
  /\ compaction = None
  /\ last = "loadOrCreate:new"
  /\ turn = IdleTurn

\* cliLoop and runAgent: one process, one session, the user answering the
\* prompt MaxTurns times and leaving then; the model provider may fail as long
\* as a further turn is to come.

\* rl.question answered with a message: runAgent appends it and builds the
\* context of the generateText call it then awaits.
runAgentBegin ==
  /\ turn.pc = "prompt"
  /\ turn.n < MaxTurns
  /\ \E c \in Contents, t \in UserTokenChoices, now \in ClockValues :
       addMessageCore("user", c, t, now)
  /\ turn' = [pc |-> "generating", n |-> turn.n + 1, userId |-> Some(seq + 1),
              systemPrompt |-> Some(SYSTEM_PROMPT),
              context |-> buildPromptContextOf(
                            Some(SYSTEM_PROMPT), summary,
                            getAllMessagesIn(messages', Get(sessionId))),
              usage |-> <<0, 0, 0>>]

\* extractUsage(result.usage): (inputTokens, outputTokens, totalTokens), each
\* 0 when the provider reports none
TurnUsages == { <<0, 0, 0>>, <<1, 1, 2>> }

\* generateText resolves: the response is appended with usage.totalTokens.
generateTextResolves ==
  /\ turn.pc = "generating"
  /\ \E c \in Contents, u \in TurnUsages, now \in ClockValues :
       /\ addMessageCore("assistant", c, Some(u[3]), now)
       /\ turn' = [turn EXCEPT !.pc = "answered", !.usage = u]

\* generateText rejects: runAgent throws, cliLoop reports and prompts again.
generateTextRejects ==
  /\ turn.pc = "generating"
  /\ turn.n < MaxTurns
  /\ turn' = [turn EXCEPT !.pc = "prompt"]
  /\ UNCHANGED memVars
  /\ UNCHANGED sbxVars
  /\ UNCHANGED cfgVars
  /\ UNCHANGED ioVars

\* session.updateTokenCount(usage.inputTokens, usage.outputTokens)
runAgentUpdateTokenCount ==
  /\ turn.pc = "answered"
  /\ updateTokenCountCore(turn.usage)
  /\ turn' = [turn EXCEPT !.pc = "counted"]

\* await session.checkAndCompact() returning without a summarizer call
runAgentCheckAndCompact ==
  /\ turn.pc = "counted"
  /\ checkAndCompactSkipCore \/ checkAndCompactNoFoldCore
  /\ turn' = [turn EXCEPT !.pc = "prompt"]

\* await session.checkAndCompact() up to its summarizer call
runAgentCompactionStarts ==
  /\ turn.pc = "counted"
  /\ checkAndCompactStartCore
  /\ turn' = [turn EXCEPT !.pc = "compacting"]

\* the summarizer resolves: checkAndCompact returns true, runAgent returns
runAgentCompacted ==
  /\ turn.pc = "compacting"
  /\ checkAndCompactFinishCore
  /\ turn' = [turn EXCEPT !.pc = "prompt"]

\* the summarizer rejects: checkAndCompact and runAgent throw, cliLoop
\* reports and prompts again
runAgentCompactionThrew ==
  /\ turn.pc = "compacting"
  /\ turn.n < MaxTurns
  /\ checkAndCompactFailCore
  /\ turn' = [turn EXCEPT !.pc = "prompt"]

\* rl.question answered with "exit"
cliLoopExit ==
  /\ turn.pc = "prompt"
  /\ turn.n = MaxTurns
  /\ turn' = [turn EXCEPT !.pc = "closed"]
  /\ UNCHANGED memVars
  /\ UNCHANGED sbxVars
  /\ UNCHANGED cfgVars
  /\ UNCHANGED ioVars

\* main() has awaited ensureContainer(): the container is created and running.
SandboxReady ==
  /\ container = Some([NewContainer(1) EXCEPT !.running = TRUE])
  /\ containerInstance = Some(ById(1))
  /\ calls = [c \in Callers |-> IdleCall]
  /\ teardown = IdleTeardown
  /\ workspace = {}
  /\ stream = IdleStream

AgentInit == SessionLoaded /\ SandboxReady /\ CfgLoaded
AgentNext ==
  \/ runAgentBegin
  \/ generateTextResolves
  \/ generateTextRejects
  \/ runAgentUpdateTokenCount
  \/ runAgentCheckAndCompact
  \/ runAgentCompactionStarts
  \/ runAgentCompacted
  \/ runAgentCompactionThrew
  \/ cliLoopExit
AgentSpec == AgentInit /\ [][AgentNext]_vars

\* The same, with every await of the turn settling and the user answering
\* every prompt.
FairAgentSpec == AgentSpec /\ WF_vars(AgentNext)

\* buildPromptContext called with any preamble between the operations of the
\* session object.
SystemPrompts == {None, Some(""), Some(SYSTEM_PROMPT)}

buildPromptContextCall ==
  /\ Idle
  /\ \E systemPrompt \in SystemPrompts :
       turn' = [IdleTurn EXCEPT !.pc = "built",
                                !.systemPrompt = systemPrompt,
                                !.context = buildPromptContext(systemPrompt)]
  /\ UNCHANGED memVars
  /\ UNCHANGED sbxVars
  /\ UNCHANGED cfgVars
  /\ UNCHANGED ioVars

\* An operation of the session object; the context returned before it is
\* dropped.
sessionOperation ==
  /\ \/ \E c \in Contents, now \in ClockValues :
          /\ seq < MaxMessages
          /\ addMessageCore("user", c, None, now)
     \/ \E c \in Contents, t \in AssistantTokenChoices, now \in ClockValues :
          /\ seq < MaxMessages
          /\ totalTokens + tokenIncrement(t) <= MaxTotalTokens
          /\ addMessageCore("assistant", c, t, now)
     \/ checkAndCompactSkipCore
     \/ checkAndCompactNoFoldCore
     \/ checkAndCompactStartCore
     \/ checkAndCompactFinishCore
     \/ checkAndCompactFailCore
  /\ turn' = IdleTurn

PromptInit == SessionLoaded /\ SbxInit /\ CfgLoaded
PromptNext ==
  \/ sessionOperation
  \/ buildPromptContextCall
PromptSpec == PromptInit /\ [][PromptNext]_vars

\* The output stream of one exec instance: any frames, delivered in any
\* chunks.
FrameSeqs == UNION { [1..n -> Frames] : n \in 0..MaxFrames }
StreamInit ==
  /\ MemInit
  /\ CfgLoaded
  /\ keepRecentMessages = MaxKeep
  /\ container = None
  /\ containerInstance = None
  /\ calls = [c \in Callers |-> IdleCall]
  /\ teardown = IdleTeardown
  /\ workspace = {}
  /\ \E frames \in FrameSeqs :
       \E chunks \in Deliveries(StreamBytes(frames)) :
         stream = [IdleStream EXCEPT !.frames = frames, !.chunks = chunks]
StreamNext ==
  \/ streamData
  \/ streamEnd
StreamSpec == StreamInit /\ [][StreamNext]_vars

\* Two sessions in one store, worked on in turn through Session objects:
\* Session.loadOrCreate(id) gives the object of the other session between
\* two whole operations.
IsolationInit ==
  /\ sessions = [id \in {"s1", "s2"} |-> None]
  /\ messages = {}
  /\ seq = 0
  /\ keepRecentMessages \in KeepChoices
  /\ sessionId = None
  /\ summary = None
  /\ totalTokens = 0
  /\ compaction = None
  /\ last = "none"
  /\ turn = IdleTurn
  /\ SbxInit
  /\ CfgLoaded
IsolationNext ==
  \/ loadOrCreate
  \/ addUserMessage
  \/ addAssistantMessage
  \/ checkAndCompactSkip
  \/ checkAndCompactNoFold
  \/ checkAndCompactStart
  \/ checkAndCompactFinish
  \/ checkAndCompactFail
IsolationSpec == IsolationInit /\ [][IsolationNext]_vars

\* checkAndCompact write by write, in a process that may stop at any moment:
\* after the summarizer has answered, setSummary() and
\* deleteMessagesBeforeId() are two statements of their own, and the delete
\* may throw.
BetweenWrites ==
  compaction # None /\ "newSummary" \in DOMAIN Get(compaction)

\* generateText resolves: setSummary(this.sessionId, result.newSummary) and
\* this.summary = result.newSummary
compactionSetSummary ==
  /\ compaction # None
  /\ ~BetweenWrites
  /\ \E text \in RawTexts, now \in ClockValues :
       LET c == Get(compaction)
           newSummary == capSummary(text)
       IN  /\ sessions' = setSummaryIn(sessions, Get(sessionId), newSummary, now)
           /\ summary' = Some(newSummary)
           /\ compaction' = Some([dbMessages |-> c.dbMessages,
                                  keepMessagesFromIndex |-> c.keepMessagesFromIndex,
                                  prompt |-> c.prompt,
                                  newSummary |-> newSummary])
  /\ UNCHANGED <<messages, seq, keepRecentMessages, sessionId, totalTokens, last>>
  /\ UNCHANGED sbxVars
  /\ UNCHANGED cfgVars
  /\ UNCHANGED ioVars
  /\ UNCHANGED agentVars

\* deleteMessagesBeforeId() returns, the total is recomputed and
\* checkAndCompact returns true
compactionDelete ==
  /\ BetweenWrites
  /\ LET c == Get(compaction)
         sid == Get(sessionId)
         cutoff == pruneCutoff(c.dbMessages, c.keepMessagesFromIndex)
         remaining == IF cutoff = None THEN messages
                      ELSE deleteMessagesBeforeIdIn(messages, sid, Get(cutoff))
     IN  /\ messages' = remaining
         /\ totalTokens' = CeilDiv4(Len(c.newSummary))
                             + getTotalTokenCountIn(remaining, sid)
  /\ compaction' = None
  /\ last' = "checkAndCompact:true"
  /\ UNCHANGED <<sessions, seq, keepRecentMessages, sessionId, summary>>
  /\ UNCHANGED sbxVars
  /\ UNCHANGED cfgVars
  /\ UNCHANGED ioVars
  /\ UNCHANGED agentVars

\* deleteMessagesBeforeId() throws (the database is busy or broken):
\* checkAndCompact throws after the summary was written
compactionDeleteThrows ==
  /\ BetweenWrites
  /\ pruneCutoff(Get(compaction).dbMessages,
                 Get(compaction).keepMessagesFromIndex) # None
  /\ compaction' = None
  /\ last' = "checkAndCompact:threw"
  /\ UNCHANGED <<sessions, messages, seq, keepRecentMessages, sessionId, summary,
                 totalTokens>>
  /\ UNCHANGED sbxVars
  /\ UNCHANGED cfgVars
  /\ UNCHANGED ioVars
  /\ UNCHANGED agentVars

\* The process stops: the Session object is gone, the store stays.
processStops ==
  /\ sessionId # None
  /\ sessionId' = None
  /\ summary' = None
  /\ totalTokens' = 0
  /\ compaction' = None
  /\ last' = IF BetweenWrites THEN "stopped:betweenWrites" ELSE "stopped"
  /\ UNCHANGED <<sessions, messages, seq, keepRecentMessages>>
  /\ UNCHANGED sbxVars
  /\ UNCHANGED cfgVars
  /\ UNCHANGED ioVars
  /\ UNCHANGED agentVars

InterruptNext ==
  \/ loadOrCreate
  \/ ~BetweenWrites /\ addUserMessage
  \/ ~BetweenWrites /\ addAssistantMessage
  \/ checkAndCompactSkip
  \/ checkAndCompactNoFold
  \/ checkAndCompactStart
  \/ ~BetweenWrites /\ checkAndCompactFail
  \/ compactionSetSummary
  \/ compactionDelete
  \/ compactionDeleteThrows
  \/ processStops
InterruptSpec == Init /\ [][InterruptNext]_vars

\* The store operations of db/client called directly, over two sessions.
StoreSessionIds == {"s1", "s2"}
SummaryTexts == { <<"a">> }
BeforeIds == 0..(MaxMessages + 1)

StoreReturn(op, sid, beforeMessageId, changes) ==
  [op |-> op, sessionId |-> sid, beforeMessageId |-> beforeMessageId,
   changes |-> changes]

\* createSession(): INSERT INTO sessions under a fresh uuid
createSession ==
  /\ \E id \in StoreSessionIds :
       /\ sessions[id] = None
       /\ sessions' = [sessions EXCEPT ![id] =
                         Some([summary_text |-> None, last_compacted_at |-> None])]
       /\ last' = StoreReturn("createSession", id, 0, 0)
  /\ UNCHANGED <<messages, seq, keepRecentMessages, sessionId, summary,
                 totalTokens, compaction>>
  /\ UNCHANGED sbxVars
  /\ UNCHANGED cfgVars
  /\ UNCHANGED ioVars
  /\ UNCHANGED agentVars

\* appendMessage(sessionId, role, content, tokenCount) for a stored session
\* (session_id REFERENCES sessions(id)), as the add*Message callers pass the
\* count
appendMessage ==
  /\ seq < MaxMessages
  /\ \E sid \in StoreSessionIds, now \in ClockValues, c \in Contents,
        rt \in ({"user"} \X UserTokenChoices)
                 \cup ({"assistant"} \X AssistantTokenChoices) :
       /\ sessions[sid] # None
       /\ messages' = messages \cup {NewRow(sid, rt[1], c, now, rt[2])}
       /\ last' = StoreReturn("appendMessage", sid, 0, 0)
  /\ seq' = seq + 1
  /\ UNCHANGED <<sessions, keepRecentMessages, sessionId, summary,
                 totalTokens, compaction>>
  /\ UNCHANGED sbxVars
  /\ UNCHANGED cfgVars
  /\ UNCHANGED ioVars
  /\ UNCHANGED agentVars

\* setSummary(sessionId, summaryText)
setSummary ==
  /\ \E sid \in StoreSessionIds, text \in SummaryTexts, now \in ClockValues :
       /\ sessions' = setSummaryIn(sessions, sid, text, now)
       /\ last' = StoreReturn("setSummary", sid, 0, 0)
  /\ UNCHANGED <<messages, seq, keepRecentMessages, sessionId, summary,
                 totalTokens, compaction>>
  /\ UNCHANGED sbxVars
  /\ UNCHANGED cfgVars
  /\ UNCHANGED ioVars
  /\ UNCHANGED agentVars

\* deleteMessagesBeforeId(sessionId, beforeMessageId): returns info.changes,
\* the number of rows the statement deleted
deleteMessagesBeforeId ==
  /\ \E sid \in StoreSessionIds, beforeMessageId \in BeforeIds :
       /\ messages' = deleteMessagesBeforeIdIn(messages, sid, beforeMessageId)
       /\ last' = StoreReturn("deleteMessagesBeforeId", sid, beforeMessageId,
                              Cardinality(messages) - Cardinality(messages'))
  /\ UNCHANGED <<sessions, seq, keepRecentMessages, sessionId, summary,
                 totalTokens, compaction>>
  /\ UNCHANGED sbxVars
  /\ UNCHANGED cfgVars
  /\ UNCHANGED ioVars
  /\ UNCHANGED agentVars

StoreInit ==
  /\ sessions = [id \in StoreSessionIds |-> None]
  /\ messages = {}
  /\ seq = 0
  /\ keepRecentMessages = MaxKeep
  /\ sessionId = None
  /\ summary = None
  /\ totalTokens = 0
  /\ compaction = None
  /\ last = StoreReturn("none", "s1", 0, 0)
  /\ turn = IdleTurn
  /\ SbxInit
  /\ CfgLoaded

StoreNext ==
  \/ createSession
  \/ appendMessage
  \/ setSummary
  \/ deleteMessagesBeforeId

StoreSpec == StoreInit /\ [][StoreNext]_vars

\* ------------------------------------------------------------------ claims

Sid == Get(sessionId)

Min(a, b) == IF a <= b THEN a ELSE b

\* The rows of the folded prefix of the compaction in flight.
FoldedPrefix ==
  LET c == Get(compaction)
  IN  { c.dbMessages[i] : i \in 1..Min(c.keepMessagesFromIndex, Len(c.dbMessages)) }

SnapshotRows ==
  LET c == Get(compaction) IN { c.dbMessages[i] : i \in 1..Len(c.dbMessages) }

\* C1: with the token total below the threshold, checkAndCompact returns
\* false, sends nothing to the summarizer and changes neither the persisted
\* messages, summary and last_compacted_at nor the in-memory summary and
\* total; a compaction is only ever started or completed at or above the
\* threshold.
C1_NoOpBelowThreshold ==
  [][ (compaction = None /\ totalTokens < CompactAtTokens) =>
        /\ compaction' = None
        /\ last' \in {"checkAndCompact:true", "checkAndCompact:threw"}
             => UNCHANGED vars
        /\ last' = "checkAndCompact:false"
             => UNCHANGED <<sessions, messages, seq, summary, totalTokens>> ]_vars

C1_Witness ==
  /\ last = "checkAndCompact:false"
  /\ totalTokens < CompactAtTokens
  /\ totalTokens > 0
  /\ messages # {}

\* C2: for N messages and keep-count K, with N <= K nothing is folded (no
\* summarizer call, split index 0, the summary text and the ledger as they
\* were); with N > K the split index is N - K, the request holds exactly the
\* first N - K messages in list order and exactly K messages lie after the
\* split.
C2_NoFoldStep ==
  (/\ Idle
   /\ shouldCompact(totalTokens, CompactAtTokens)
   /\ Cardinality(RowsOf(messages, Sid)) <= keepRecentMessages)
  => /\ compaction' = None
     /\ last' = "checkAndCompact:true"
          => /\ messages' = messages
             /\ summary' = Some(orEmpty(summary))

C2_FoldState ==
  compaction # None =>
    LET c == Get(compaction)
        N == Len(c.dbMessages)
        K == keepRecentMessages
    IN  /\ N > K
        /\ c.keepMessagesFromIndex = N - K
        /\ Len(c.prompt.messages) = N - K
        /\ \A i \in 1..(N - K) :
             c.prompt.messages[i] =
               [role |-> c.dbMessages[i].role, content |-> c.dbMessages[i].content]
        /\ N - c.keepMessagesFromIndex = K

C2_SplitAtLengthMinusKeep ==
  [][ C2_NoFoldStep /\ C2_FoldState' ]_vars

C2_Witness ==
  /\ compaction # None
  /\ keepRecentMessages = 1
  /\ Len(Get(compaction).dbMessages) = 3
  /\ Get(compaction).keepMessagesFromIndex = 2

\* C3: every message a compaction deletes is one of the folded prefix it
\* handed to the summarizer.
C3_PrunedWereFolded ==
  [][ (compaction # None /\ last' = "checkAndCompact:true")
        => (messages \ messages') \subseteq FoldedPrefix ]_vars

\* C4: a message appended after checkAndCompact took its snapshot is still
\* persisted when that compaction has pruned, whichever cutoff it used.
C4_LateAppendsSurvive ==
  [][ (compaction # None /\ compaction' = None)
        => \A m \in RowsOf(messages, Sid) \ SnapshotRows : m \in messages' ]_vars

\* Keep-count 1, ids 2 and 3 left with equal timestamps after a compaction:
\* the snapshot was [1, 2], message 1 was pruned at cutoff 2 and message 3
\* arrived while the summarizer was running.
C4_Witness ==
  /\ last = "checkAndCompact:true"
  /\ keepRecentMessages = 1
  /\ seq = 3
  /\ { m.id : m \in messages } = {2, 3}
  /\ \A m \in messages : m.created_at = 1

\* Keep-count 0, only message 3 left after a compaction, stamped with the
\* latest time: it was not in the snapshot, which was pruned at last id + 1.
C4_WitnessFullCollapse ==
  /\ last = "checkAndCompact:true"
  /\ keepRecentMessages = 0
  /\ seq = 3
  /\ { m.id : m \in messages } = {3}
  /\ \A m \in messages : m.created_at = 2

\* C5: a failed summarization makes checkAndCompact throw with no effect:
\* neither starting the attempt nor its failure changes the persisted
\* summary, last_compacted_at and messages or the in-memory summary and
\* total, and no second request is sent.
C5_FailureLeavesStateUnchanged ==
  [][ /\ (compaction = None /\ compaction' # None)
        => UNCHANGED <<sessions, messages, seq, summary, totalTokens>>
      /\ (compaction # None /\ last' = "checkAndCompact:threw")
        => /\ compaction' = None
           /\ UNCHANGED <<sessions, messages, seq, summary, totalTokens>> ]_vars

C5_Witness ==
  /\ last = "checkAndCompact:threw"
  /\ compaction = None
  /\ totalTokens >= CompactAtTokens
  /\ messages # {}
  /\ Get(sessions[Sid]).last_compacted_at = None

\* C6: after every completed Session operation the in-memory total is the sum
\* of the persisted token counts plus ceil(length / 4) of the summary.
C6_TotalIsLedgerPlusSummary ==
  Idle => totalTokens = getTotalTokenCount(Sid) + CeilDiv4(Len(orEmpty(summary)))

\* C7: reloading a session by id right after a compaction yields the summary,
\* messages and token total the session object held before the reload.
C7_ReloadRoundTrip ==
  [][ (last = "checkAndCompact:true" /\ last' = "loadOrCreate:existing"
       /\ sessionId' = sessionId)
        => /\ summary' = summary
           /\ messages' = messages
           /\ totalTokens' = totalTokens ]_vars

\* C8: one exec() call recreates the environment and retries the command at
\* most once.
C8_AtMostOneRetry ==
  \A c \in Callers : calls[c].depth <= 1

\* C9: every exec() call that has started comes to return or throw.
C9_ExecTerminates ==
  \A c \in Callers :
    (calls[c].pc = "inspect") ~> (calls[c].pc \in {"returned", "threw"})

\* C10: a timeout is thrown to the caller of exec() as it is: no recreation,
\* no retry, and the container and the cached handle stay as they were.
C10_TimeoutIsThrown ==
  [][ \A c \in Callers :
        (calls[c].pc = "run" /\ calls'[c].pc # "run"
         /\ calls'[c].error = Some(TimeoutError))
          => /\ calls'[c].pc = "threw"
             /\ calls'[c].depth = calls[c].depth
             /\ (container = None) = (container' = None)
             /\ container # None
                  => [Get(container') EXCEPT !.procs = {}]
                       = [Get(container) EXCEPT !.procs = {}]
             /\ containerInstance' = containerInstance ]_vars

C10_Witness ==
  \E c \in Callers :
    /\ calls[c].pc = "threw"
    /\ calls[c].error = Some(TimeoutError)
    /\ container # None /\ Get(container).running
    /\ containerInstance # None

\* C11: with the container killed from outside at any moment, before or
\* between the steps of exec(), no exec() call throws, a call that returns
\* carries a valid exit code, and every file of the host workspace stays.
C11_KilledSandboxRecovers ==
  [][ /\ \A c \in Callers :
           /\ calls'[c].pc # "threw"
           /\ calls'[c].pc = "returned"
                => Get(calls'[c].result).exitCode \in ExitCodes
      /\ \A f \in workspace : f \in workspace' ]_vars

\* The cached handle addresses the container that exists, and it is running.
HandleOnRunning ==
  /\ container # None /\ Get(container).running
  /\ containerInstance # None
  /\ Resolve(Get(containerInstance)) = container

\* C12: when ensureContainer() returns, the named container is running and
\* is what the cached handle addresses; a running container was left as it
\* was, a stopped one was started and is the same container, a missing one
\* was created with the workspace bind mount and started; a lookup error
\* other than not-found is thrown and nothing is created.
C12_EnsureLeavesRunning ==
  [][ \A c \in Callers :
        /\ (calls[c].pc \in {"inspect", "start", "startNew"} /\ calls'[c].pc = "exec")
             => /\ HandleOnRunning'
                /\ calls'[c].handle = containerInstance'
                /\ calls[c].pc = "inspect"
                     => /\ container # None /\ Get(container).running
                        /\ container' = container
                /\ calls[c].pc = "start"
                     => /\ container # None /\ ~Get(container).running
                        /\ container' = Some([Get(container) EXCEPT !.running = TRUE])
                /\ calls[c].pc = "startNew"
                     => /\ container # None /\ ~Get(container).running
                        /\ Get(container').id = Get(container).id
                        /\ Get(calls[c].handle).id = Get(container).id
                        /\ WorkspaceBind \in Get(container').binds
        /\ (calls[c].pc = "inspect" /\ container = None
            /\ calls'[c].pc \notin {"inspect", "threw"})
             => calls'[c].pc = "create" /\ container' = None
        /\ (calls[c].pc = "inspect" /\ calls'[c].pc = "threw")
             => /\ Get(calls'[c].error).statusCode # Some(404)
                /\ container' = container
                /\ containerInstance' = containerInstance ]_vars

\* ensureContainer() has found the container by its name and returned,
\* after a stopContainer() had removed an earlier one.
C12_Witness ==
  \E c \in Callers :
    /\ calls[c].pc = "exec"
    /\ calls[c].depth = 0
    /\ calls[c].handle = Some(ByName)
    /\ HandleOnRunning
    /\ Get(container).id > 1
    /\ teardown.pc = "returned"

\* The payloads a command sends on one stream, in order.
PayloadsOf(cmd, streamType) ==
  LET sel == SelectSeq(Run(cmd).frames, LAMBDA f : f.streamType = streamType)
  IN  [i \in 1..Len(sel) |-> sel[i].payload]

\* The order of the steps of an exec() call that finds no container.
ColdStartOrder ==
  { <<"inspect", "create">>, <<"create", "startNew">>, <<"startNew", "exec">>,
    <<"exec", "run">>, <<"run", "returned">> }

C14_RecreateSucceeds ==
  [][ \A c \in Callers :
        calls[c].ctx = "recreate"
          => /\ calls'[c].pc # "threw"
             /\ calls[c].pc = "create" => container = None
             /\ (calls[c].pc = "startNew" /\ calls'[c].pc # "startNew")
                  => /\ HandleOnRunning'
                     /\ containerInstance' = calls[c].handle ]_vars

\* C15: stopContainer() never throws, and when it returns the container is
\* absent and the cached handle is cleared, whatever state the container was
\* in, a second call right after it included.
C15_TeardownIdempotent ==
  [][ /\ teardown'.pc # "threw"
      /\ (teardown.pc # "returned" /\ teardown'.pc = "returned")
           => container' = None /\ containerInstance' = None ]_vars

\* C16: however exec() fails, the run-shell tool returns success = false,
\* exit code -1, empty stdout and the text of the error in stderr, the same
\* for a timeout as for any other failure; and it returns a result, never
\* an error, whenever exec() has ended.
C16_ToolNeverRaises ==
  \A c \in Callers :
    /\ calls[c].pc \in {"returned", "threw"} => calls[c].tool # None
    /\ calls[c].pc = "threw"
         => calls[c].tool =
              Some([success |-> FALSE, exitCode |-> -1, stdout |-> <<>>,
                    stderr |-> Get(calls[c].error).message])
    /\ calls[c].pc = "returned"
         => /\ Get(calls[c].tool).success = (Get(calls[c].result).exitCode = 0)
            /\ Get(calls[c].tool).exitCode = Get(calls[c].result).exitCode

\* The tool has reported a second sandbox failure.
C16_Witness ==
  \E c \in Callers :
    /\ calls[c].pc = "threw"
    /\ calls[c].depth = 1
    /\ calls[c].error = Some(NotFoundError)
    /\ Get(calls[c].tool).exitCode = -1

\* The tool has reported a timeout.
C16_WitnessTimeout ==
  \E c \in Callers :
    /\ calls[c].pc = "threw"
    /\ calls[c].error = Some(TimeoutError)
    /\ Get(calls[c].tool).stderr = TimeoutError.message

\* What the summarizer output text is stored as.
StoredFor(text) ==
  LET t == Trim(text)
  IN  IF Len(t) > MaxSummaryLength
      THEN SubSeq(t, 1, MaxSummaryLength) \o TruncationMarker
      ELSE t

\* C17: the stored summary is never longer than the maximum plus the marker:
\* a compaction stores the trimmed output of the summarizer, cut to its
\* first maximum characters followed by the marker when it is longer.
C17_SummaryCapped ==
  [][ /\ (compaction # None /\ last' = "checkAndCompact:true")
           => /\ \E text \in RawTexts : summary' = Some(StoredFor(text))
              /\ Get(sessions'[Sid]).summary_text = summary'
      /\ \A id \in SessionIds :
           (sessions'[id] # None /\ Get(sessions'[id]).summary_text # None)
             => Len(Get(Get(sessions'[id]).summary_text))
                  <= MaxSummaryLength + Len(TruncationMarker) ]_vars

\* A compaction has stored a truncated summary.
C17_Witness ==
  /\ last = "checkAndCompact:true"
  /\ summary # None
  /\ Len(Get(summary)) = MaxSummaryLength + Len(TruncationMarker)
  /\ Get(sessions[Sid]).summary_text = summary

\* C18: a compaction of a session that an earlier compaction has stored a
\* summary for sends that summary, as stored, in its request, whether the
\* session object is the one that compacted or one reloaded by id.
C18_SummaryCarriedOver ==
  [][ (compaction = None /\ compaction' # None
       /\ Get(sessions[Sid]).last_compacted_at # None)
        => LET stored == Get(sessions[Sid]).summary_text
           IN  /\ stored # None
               /\ Get(stored) # <<>>
                    => Get(compaction').prompt.existingSummary = stored ]_vars

\* The second compaction of a session reloaded after its first: the summary
\* "a" is in the request, and the total is the ledger sum of two messages.
C18_Witness ==
  /\ compaction # None
  /\ Get(compaction).prompt.existingSummary = Some(<<"a">>)
  /\ Get(sessions[Sid]).summary_text = Some(<<"a">>)
  /\ totalTokens = 4
  /\ seq = 3

\* C19: a session reloaded by its id has that id, and its getAllMessages()
\* yields the persisted messages of the session, each once, in the order
\* they were appended.
C19_ReloadKeepsAppendOrder ==
  last = "loadOrCreate:existing"
    => LET ms == getAllMessages(Sid)
       IN  /\ { ms[i] : i \in 1..Len(ms) } = RowsOf(messages, Sid)
           /\ Len(ms) = Cardinality(RowsOf(messages, Sid))
           /\ \A i, j \in 1..Len(ms) : i < j => ms[i].id < ms[j].id

\* C20: every configuration the schema accepts has its compaction threshold
\* strictly below its maximum of tokens.
C20_ThresholdBelowMax ==
  (config # None /\ ~Get(config).exited)
    => Get(config).compactAtTokens < Get(config).maxTokens

\* The compaction in flight ends with no message appended since its snapshot.
FinishesUndisturbed ==
  /\ compaction # None
  /\ last' = "checkAndCompact:true"
  /\ RowsOf(messages, Sid) = SnapshotRows

\* C22: a compaction over N > K messages with K >= 1 and no append meanwhile
\* returns true and leaves exactly the K most recent messages of its
\* snapshot, the summary it got persisted and in memory, last_compacted_at
\* set, and the total at ceil(length / 4) of the summary plus the token
\* counts of the K messages left.
C22_CompactionKeepsLastK ==
  [][ (FinishesUndisturbed /\ keepRecentMessages >= 1)
        => LET db == Get(compaction).dbMessages
               N == Len(db)
               K == keepRecentMessages
               kept == { db[i] : i \in (N - K + 1)..N }
           IN  /\ N > K
               /\ RowsOf(messages', Sid) = kept
               /\ Cardinality(RowsOf(messages', Sid)) = K
               /\ summary' # None
               /\ Get(sessions'[Sid]).summary_text = summary'
               /\ Get(sessions'[Sid]).last_compacted_at # None
               /\ totalTokens' = CeilDiv4(Len(Get(summary'))) + SumTokens(kept) ]_vars

\* C23: a compaction whose split index is at or past the end of its
\* snapshot, with no append meanwhile, leaves the session without messages.
C23_FullCollapseEmptiesLedger ==
  [][ (FinishesUndisturbed
       /\ Get(compaction).keepMessagesFromIndex >= Len(Get(compaction).dbMessages))
        => RowsOf(messages', Sid) = {} ]_vars

\* C25: no two persisted messages share an id, every new message gets an id
\* above every id handed out before, deleted ones included, and the read in
\* created_at order lists a session's messages by increasing id.
C25_IdsFollowCreation ==
  [][ /\ \A a, b \in messages' : a.id = b.id => a = b
      /\ seq' >= seq
      /\ \A m \in messages' \ messages : m.id > seq /\ m.id = seq'
      /\ \A id \in SessionIds :
           LET ms == getAllMessagesIn(messages', id)
           IN  \A i, j \in 1..Len(ms) : i < j => ms[i].id < ms[j].id ]_vars

\* The token counts of the rows of a session, summed over the ids handed out.
RECURSIVE TokensUpTo(_, _, _)
TokensUpTo(table, sid, n) ==
  IF n = 0 THEN 0
  ELSE LET hit == { m \in table : m.id = n /\ m.session_id = sid
                                  /\ m.token_count # None }
       IN  (IF hit = {} THEN 0 ELSE Get((CHOOSE m \in hit : TRUE).token_count))
           + TokensUpTo(table, sid, n - 1)

\* C27: getTotalTokenCount is the sum of the non-null token counts of the
\* persisted messages of the session, 0 without messages; a message appended
\* without a count or with count 0 is stored with that count and changes
\* neither that sum nor the in-memory total.
C27_TokenSumSkipsNull ==
  [][ /\ sessionId' # None
        => /\ getTotalTokenCountIn(messages', Get(sessionId'))
                = TokensUpTo(messages', Get(sessionId'), seq')
           /\ RowsOf(messages', Get(sessionId')) = {}
                => getTotalTokenCountIn(messages', Get(sessionId')) = 0
      /\ \A m \in messages' \ messages :
           m.token_count \in {None, Some(0)}
             => /\ totalTokens' = totalTokens
                /\ getTotalTokenCountIn(messages', m.session_id)
                     = getTotalTokenCountIn(messages, m.session_id) ]_vars

\* A message without a count lies beside one with a count, and the total is
\* the count of the second.
C27_Witness ==
  /\ last = "addMessage"
  /\ \E m \in messages : m.token_count = None
  /\ \E m \in messages : m.token_count = Some(0)
  /\ \E m \in messages : m.token_count = Some(2)
  /\ totalTokens = 2
  /\ getTotalTokenCount(Sid) = 2

\* C26: deleteMessagesBeforeId(session, id) removes every message of the
\* session with a smaller id and nothing else: the messages of the session
\* from id on, the messages of the other sessions and the session records
\* stay, and the number returned is the number of messages removed.
C26_DeleteBeforeIdFrame ==
  [][ last'.op = "deleteMessagesBeforeId"
        => LET sid == last'.sessionId
               before == last'.beforeMessageId
               gone == { m \in messages : m.session_id = sid /\ m.id < before }
           IN  /\ \A m \in gone : m \notin messages'
               /\ \A m \in messages :
                    (m.session_id = sid /\ m.id >= before) => m \in messages'
               /\ \A m \in messages : m.session_id # sid => m \in messages'
               /\ messages' \subseteq messages
               /\ last'.changes = Cardinality(gone)
               /\ sessions' = sessions ]_vars

\* A delete has removed a message of one session, with a later message of
\* that session and an earlier message of the other session left behind.
C26_Witness ==
  /\ last.op = "deleteMessagesBeforeId"
  /\ last.changes = 1
  /\ \E m \in messages :
       m.session_id = last.sessionId /\ m.id >= last.beforeMessageId
  /\ \E m \in messages :
       m.session_id # last.sessionId /\ m.id < last.beforeMessageId

\* The context returned by the buildPromptContext call just made is, in this
\* order, the preamble when hasPreamble, the labeled summary when the summary
\* of the object is not empty, and one entry per row of the session in
\* created_at order.
ContextIsPreambleSummaryLedger(hasPreamble) ==
  LET ctx == turn.context
      rows == getAllMessages(Sid)
      hasSummary == summary # None /\ Len(Get(summary)) > 0
      p == IF hasPreamble THEN 1 ELSE 0
      q == p + (IF hasSummary THEN 1 ELSE 0)
  IN  /\ Len(ctx) = q + Cardinality(RowsOf(messages, Sid))
      /\ hasPreamble
           => ctx[1] = [role |-> "system", content |-> <<Get(turn.systemPrompt)>>]
      /\ hasSummary
           => /\ ctx[q].role = "system"
              /\ Head(ctx[q].content) = SummaryHeading
              /\ Tail(ctx[q].content) = Get(summary)
      /\ { rows[i] : i \in 1..Len(rows) } = RowsOf(messages, Sid)
      /\ \A i \in 1..Len(rows) :
           /\ ctx[q + i].role = rows[i].role
           /\ ctx[q + i].content = <<rows[i].content>>
      /\ \A i, j \in 1..Len(rows) :
           i < j => rows[i].created_at <= rows[j].created_at

C24_WitnessEmptyStrings ==
  /\ turn.pc = "built"
  /\ turn.systemPrompt = Some("")
  /\ summary = Some(<< >>)
  /\ Len(turn.context) = Cardinality(RowsOf(messages, Sid))
  /\ Len(turn.context) > 0

\* C21: a checkAndCompact that throws leaves the ledger, the summary and the
\* session record as they were and the total at or above the threshold;
\* until a compaction completes no message is removed and the total does not
\* go down; at the end of a turn with the total at or above the threshold and
\* more than K messages the compaction is attempted over the whole ledger;
\* and with the summarizer failing only while a further turn is to come, a
\* failed compaction is followed by a completed one.
C21_SelfHealing ==
  /\ [][ (compaction # None /\ last' = "checkAndCompact:threw")
           => /\ shouldCompact(totalTokens', CompactAtTokens)
              /\ totalTokens' = totalTokens
              /\ messages' = messages
              /\ summary' = summary
              /\ sessions' = sessions ]_vars
  /\ [][ (totalTokens' < totalTokens \/ ~(messages \subseteq messages'))
           => /\ last' = "checkAndCompact:true"
              /\ turn.pc \in {"counted", "compacting"}
              /\ turn'.pc = "prompt" ]_vars
  /\ [][ (/\ turn.pc = "counted"
          /\ shouldCompact(totalTokens, CompactAtTokens)
          /\ Cardinality(RowsOf(messages, Sid)) > keepRecentMessages)
           => /\ compaction' # None
              /\ { Get(compaction').dbMessages[i] :
                     i \in 1..Len(Get(compaction').dbMessages) }
                   = RowsOf(messages, Sid) ]_vars
  /\ (last = "checkAndCompact:threw") ~> (last = "checkAndCompact:true")

\* In the second turn a compaction is in flight over the four messages of
\* both turns with no summary stored yet: the compaction of the first turn
\* threw, and this is the next attempt.
C21_Witness ==
  /\ turn.pc = "compacting"
  /\ turn.n = 2
  /\ summary = None
  /\ Get(sessions[Sid]).last_compacted_at = None
  /\ Len(Get(compaction).dbMessages) = 4
  /\ shouldCompact(totalTokens, CompactAtTokens)

\* The steps of a turn in the order of runAgent, and the way out of them.
TurnOrder ==
  { <<"prompt", "generating">>, <<"generating", "answered">>,
    <<"answered", "counted">>, <<"counted", "compacting">>,
    <<"counted", "prompt">>, <<"compacting", "prompt">>,
    <<"generating", "prompt">>, <<"prompt", "closed">> }

\* What each step of a turn does to the session: the user message is appended
\* and the context built in one step, the assistant message is appended when
\* the model answers, the total is updated next, and only then, up to the
\* return to the prompt, checkAndCompact runs.
TurnStepsInOrder ==
  /\ turn'.pc # turn.pc => <<turn.pc, turn'.pc>> \in TurnOrder
  /\ \A m \in messages' \ messages :
       \/ m.role = "user" /\ turn.pc = "prompt" /\ turn'.pc = "generating"
                          /\ turn'.userId = Some(m.id)
       \/ m.role = "assistant" /\ turn.pc = "generating" /\ turn'.pc = "answered"
  /\ (last' = "updateTokenCount" /\ last # last')
       => turn.pc = "answered" /\ turn'.pc = "counted"
  /\ (compaction' # compaction \/ ~(messages \subseteq messages')
      \/ summary' # summary \/ sessions' # sessions)
       => turn.pc \in {"counted", "compacting"}
  /\ turn'.n # turn.n
       => compaction = None /\ turn.pc = "prompt" /\ turn'.n = turn.n + 1

\* C28: the steps of a turn come in the order append user message, build
\* context, generate, append assistant message, checkAndCompact; a
\* compaction is in flight only at the end of a turn and no turn begins
\* while one is; and the context handed to the model ends with the user
\* message appended in that turn.
C28_TurnsSequential ==
  /\ [][TurnStepsInOrder]_vars
  /\ [](compaction # None => turn.pc = "compacting")
  /\ [](turn.pc = "generating"
         => LET rows == getAllMessages(Sid)
            IN  /\ turn.context = buildPromptContext(Some(SYSTEM_PROMPT))
                /\ turn.context[Len(turn.context)].role = "user"
                /\ rows[Len(rows)].id = Get(turn.userId))

SameSandbox ==
  /\ containerInstance' = containerInstance
  /\ teardown' = teardown
  /\ (container = None) = (container' = None)
  /\ container # None
       => /\ Get(container').id = Get(container).id
          /\ Get(container').running = Get(container).running
          /\ Get(container').binds = Get(container).binds

\* C30: the promise of an exec() attempt settles in the one step that ends
\* its run: when the stream ends first the call returns {stdout, stderr,
\* exitCode} and carries no timeout error; when the timer fires first the
\* call throws the timeout error, the command stays in the running container
\* and nothing else changes; what a call has returned or thrown stays as it
\* is until the caller calls again, and a command that ends after its
\* timeout changes no call and nothing of the container but the end of that
\* command.
C30_SettlesOnce ==
  [][ /\ \A c \in Callers :
           /\ (calls[c].pc = "run" /\ calls'[c].pc = "returned")
                => /\ calls'[c].result # None
                   /\ DOMAIN Get(calls'[c].result) = {"stdout", "stderr", "exitCode"}
                   /\ calls'[c].error # Some(TimeoutError)
                   /\ calls'[c].error = calls[c].error
           /\ (calls[c].pc = "run" /\ calls'[c].error = Some(TimeoutError))
                => /\ calls'[c].pc = "threw"
                   /\ calls'[c].result = None
                   /\ workspace' = workspace
                   /\ SameSandbox
                   /\ (container # None /\ Get(container).running
                       /\ Resolve(Get(calls[c].handle)) # None)
                        => calls[c].cmd \in Get(container').procs
           /\ (calls[c].pc \in {"returned", "threw"} /\ calls'[c] # calls[c])
                => /\ calls'[c].pc = "inspect"
                   /\ calls'[c].result = None
                   /\ calls'[c].error = None
      /\ (/\ container # None /\ container' # None
          /\ Get(container').procs # Get(container).procs
          /\ Get(container').procs \subseteq Get(container).procs
          /\ Get(container').running)
           => calls' = calls /\ SameSandbox ]_vars

\* An exec() of "touch a" has thrown the timeout error and its command is
\* still running in the container.
C30_Witness ==
  \E c \in Callers :
    /\ calls[c].pc = "threw"
    /\ calls[c].error = Some(TimeoutError)
    /\ calls[c].cmd = "touch a"
    /\ container # None /\ Get(container).running
    /\ "touch a" \in Get(container).procs
    /\ "a" \notin workspace

\* The command has since come to its end and written its file; the call
\* still reports the timeout.
C30_WitnessLateEnd ==
  \E c \in Callers :
    /\ calls[c].pc = "threw"
    /\ calls[c].error = Some(TimeoutError)
    /\ calls[c].cmd = "touch a"
    /\ container # None /\ Get(container).running
    /\ Get(container).procs = {}
    /\ "a" \in workspace

\* The concatenation of a sequence of payloads.
RECURSIVE Concat(_)
Concat(payloads) ==
  IF payloads = << >> THEN << >> ELSE Head(payloads) \o Concat(Tail(payloads))

\* C31: whatever frames the command emits and however their bytes are cut
\* into chunks, at the end of the stream the stdout accumulator is the
\* payloads of the type-1 frames in order and the stderr accumulator is the
\* payloads of the type-2 frames in order.
C31_DemuxAnyChunking ==
  stream.ended
    => /\ stream.stdout = Concat(Demux(stream.frames, 1))
       /\ stream.stderr = Concat(Demux(stream.frames, 2))

\* C32: no operation of a Session object (add*Message, updateTokenCount,
\* checkAndCompact, loadOrCreate) changes the rows, the summary, the
\* last_compacted_at or the stored token total of a session other than the
\* one the object is for, ids being handed out by one counter.
C32_SessionIsolation ==
  [][ \A sid \in DOMAIN sessions :
        sid # Get(sessionId')
          => /\ RowsOf(messages', sid) = RowsOf(messages, sid)
             /\ sessions'[sid] = sessions[sid]
             /\ getTotalTokenCountIn(messages', sid)
                  = getTotalTokenCountIn(messages, sid) ]_vars

\* a compaction of one session has pruned its ledger while the other session
\* holds a message with a smaller id than the cutoff
C32_Witness ==
  /\ last = "checkAndCompact:true"
  /\ \E other \in DOMAIN sessions :
       /\ other # Sid
       /\ sessions[other] # None
       /\ Get(sessions[other]).summary_text = None
       /\ \E m \in RowsOf(messages, other) : m.id < seq
  /\ Cardinality(messages) < seq

\* C33: checkAndCompact called with the total at or above the threshold and
\* at most keepRecentMessages messages in the ledger does not return true and
\* leaves the ledger, the persisted summary and last_compacted_at as they
\* were.
C33_TrueOnlyWhenFolded ==
  [][ (/\ Idle
       /\ shouldCompact(totalTokens, CompactAtTokens)
       /\ Len(getAllMessages(Sid)) <= keepRecentMessages
       /\ last' \in {"checkAndCompact:true", "checkAndCompact:false"})
        => /\ last' = "checkAndCompact:false"
           /\ messages' = messages
           /\ sessions' = sessions ]_vars

\* C34: checkAndCompact persists the new summary before it deletes a
\* message: between the two writes the summary of this compaction is the
\* persisted one and the messages it folded are still in the ledger (they
\* stay there when the process stops or the delete fails at that point), and
\* a message leaves the ledger only after that write and only if it was
\* folded into that summary.
C34_BetweenWritesState ==
  BetweenWrites
    => /\ Get(sessions[Sid]).summary_text = Some(Get(compaction).newSummary)
       /\ FoldedPrefix \subseteq messages

C34_DeleteStep ==
  messages \ messages' # {}
    => /\ BetweenWrites
       /\ Get(sessions[Sid]).summary_text = Some(Get(compaction).newSummary)
       /\ (messages \ messages') \subseteq FoldedPrefix

C34_InterruptedStep ==
  (BetweenWrites /\ last' \in {"stopped:betweenWrites", "checkAndCompact:threw"})
    => /\ messages' = messages
       /\ sessions' = sessions

C34_SummaryBeforeDelete ==
  /\ []C34_BetweenWritesState
  /\ [][C34_DeleteStep /\ C34_InterruptedStep]_vars

\* C35: when checkAndCompact has returned true the in-memory token total is
\* below the threshold, so that calling it again at once returns false.
C35_BelowThresholdAfterCompaction ==
  last = "checkAndCompact:true" => ~shouldCompact(totalTokens, CompactAtTokens)

\* C36: whenever no operation of the Session object is under way, its
\* in-memory summary and the persisted summary_text of its session are the
\* same summary: both absent or empty, or both the same text.
C36_SummaryInSync ==
  (sessionId # None /\ compaction = None)
    => orEmpty(summary) = orEmpty(Get(sessions[Sid]).summary_text)

\* a session with a stored summary was loaded again
C36_Witness ==
  /\ last = "loadOrCreate:existing"
  /\ summary # None
  /\ Get(summary) # << >>
  /\ Get(sessions[Sid]).last_compacted_at # None

\* a compaction of a session that has a summary failed
C36_WitnessFailed ==
  /\ last = "checkAndCompact:threw"
  /\ summary # None
  /\ Get(summary) # << >>

\* C37: loadOrCreate(id) with an id that is not stored does not fail: it
\* inserts one session record under a new id, different from the id asked
\* for, and returns the object of that session with no summary and total 0;
\* with an id that is stored it inserts no record.
C37_UnknownIdCanLoad ==
  \A requested \in RequestedIds :
    (/\ compaction = None
     /\ ~IsStored(requested)
     /\ \E id \in DOMAIN sessions : sessions[id] = None /\ requested # Some(id))
      => ENABLED loadOrCreateNew(requested)

C37_NewStep ==
  \A requested \in RequestedIds :
    loadOrCreateNew(requested)
      => /\ ~IsStored(requested)
         /\ sessionId' # None
         /\ sessionId' # requested
         /\ sessions[Get(sessionId')] = None
         /\ sessions' = [sessions EXCEPT ![Get(sessionId')] =
                           Some([summary_text |-> None, last_compacted_at |-> None])]
         /\ summary' = None
         /\ totalTokens' = 0
         /\ messages' = messages

C37_ExistingStep ==
  \A id \in DOMAIN sessions :
    /\ sessions[id] # None
         => ~ENABLED loadOrCreateNew(Some(id))
    /\ loadExisting(id)
         => /\ sessions' = sessions
            /\ sessionId' = Some(id)

C37_LoadOrCreateUnknownId ==
  /\ []C37_UnknownIdCanLoad
  /\ [][C37_NewStep /\ C37_ExistingStep]_vars

\* loadOrCreate was asked for an id that is not stored while another session
\* is: the new session is neither of the two
C37_Witness ==
  /\ last = "loadOrCreate:new"
  /\ \E other \in DOMAIN sessions :
       /\ other # Sid
       /\ sessions[other] # None
       /\ RowsOf(messages, other) # {}
  /\ RowsOf(messages, Sid) = {}
  /\ Get(sessions[Sid]).summary_text = None

\* C38: when generateText fails in a turn, the user message of that turn
\* stays in the ledger, no assistant message is appended, the total is not
\* updated and checkAndCompact is not run; the context of the next turn holds
\* that user message and, after it, the user message of the new turn.
C38_FailedGenerationStep ==
  (turn.pc = "generating" /\ turn'.pc = "prompt")
    => /\ messages' = messages
       /\ \E m \in messages' : m.id = Get(turn.userId) /\ m.role = "user"
       /\ totalTokens' = totalTokens
       /\ sessions' = sessions
       /\ summary' = summary
       /\ compaction' = None
       /\ last' = "addMessage"

C38_NextTurnStep ==
  (/\ turn.pc = "prompt"
   /\ turn.userId # None
   /\ last = "addMessage"
   /\ turn'.pc = "generating")
    => LET rows == getAllMessagesIn(messages', Sid)
       IN  /\ turn'.context
                = buildPromptContextOf(Some(SYSTEM_PROMPT), summary', rows)
           /\ Len(rows) >= 2
           /\ rows[Len(rows) - 1].id = Get(turn.userId)
           /\ rows[Len(rows) - 1].role = "user"
           /\ rows[Len(rows)].id = Get(turn'.userId)

C38_GenerationFailureKeepsUserMessage ==
  [][C38_FailedGenerationStep /\ C38_NextTurnStep]_vars

\* C39: a command that runs to its end is returned by exec() as a result
\* with the exit code of the command, zero or not: the step raises no error,
\* is no retry and changes neither the container nor the cached handle; and
\* exec() enters recreateContainer() only on an error whose message contains
\* "container" or whose status is 404.
C39_CompletedStep ==
  \A c \in Callers :
    (/\ calls[c].pc = "run"
     /\ calls'[c].pc = "returned"
     /\ container # None
     /\ Get(container).running)
      => /\ Get(calls'[c].result).exitCode = Run(calls[c].cmd).exitCode
         /\ Get(calls'[c].tool).exitCode = Run(calls[c].cmd).exitCode
         /\ Get(calls'[c].tool).success = (Run(calls[c].cmd).exitCode = 0)
         /\ calls'[c].error = calls[c].error
         /\ calls'[c].depth = calls[c].depth
         /\ calls'[c].ctx = calls[c].ctx
         /\ container' = container
         /\ containerInstance' = containerInstance

C39_RecoveryStep ==
  \A c \in Callers :
    (calls[c].ctx # "recreate" /\ calls'[c].ctx = "recreate")
      => /\ calls[c].pc \in {"exec", "run"}
         /\ calls'[c].error # None
         /\ \/ Includes(Get(calls'[c].error).message, "container")
            \/ Get(calls'[c].error).statusCode = Some(404)

C39_NonZeroExitIsAResult ==
  [][C39_CompletedStep /\ C39_RecoveryStep]_vars

\* exec("ls b") has returned exit code 1 at the first attempt
C39_Witness ==
  \E c \in Callers :
    /\ calls[c].pc = "returned"
    /\ calls[c].cmd = "ls b"
    /\ Get(calls[c].result).exitCode = 1
    /\ Get(calls[c].result).stderr # << >>
    /\ calls[c].depth = 0
    /\ calls[c].error = None
    /\ Get(calls[c].tool).success = FALSE

\* C40: of two exec() calls issued together while no sandbox exists neither
\* fails, and the sandbox they run in is the one container that was created.
C40_ConcurrentColdStart ==
  /\ \A c \in ToolCalls : calls[c].pc # "threw"
  /\ container # None => Get(container).id = 1

====
